---- MODULE Spec2Model ----
(***************************************************************************)
(* A model of github.com/mickamy/go-event-sourcing: the EventStore         *)
(* contract (Append / Load / SaveSnapshot / LoadSnapshot) as implemented   *)
(* by the in-memory backend (stores/mem) and by the PostgreSQL backend     *)
(* (stores/pgx), driven by concurrent client goroutines.                   *)
(*                                                                         *)
(* One behaviour of the model is one store instance: `backend` is fixed by *)
(* Init ("mem" for mem.New(), "pgx" for pgx.NewEventStore()).  The         *)
(* variables of the other backend keep their initial value.                *)
(*                                                                         *)
(* A goroutine is "idle", then inside a call (from its first statement to  *)
(* Return), then "done" holding the call's arguments and result until      *)
(* Reset drops them.  A call begins with its first statement: a caller     *)
(* still waiting for the lock has not acted on the store.                  *)
(* Nothing reads another goroutine's result, so Next lets the caller drop  *)
(* a result before any other goroutine steps; the race specification keeps *)
(* both results instead.                                                   *)
(*                                                                         *)
(* Not modelled: wall-clock timestamps (storedEvent.at, snapshot.at), the  *)
(* event_id column.                                                        *)
(***************************************************************************)
EXTENDS Integers, Sequences, FiniteSets, TLC

(***************************************************************************)
(* Bounds of the model.                                                    *)
(***************************************************************************)
\* No stream grows beyond MaxVersion events (guard of Call).
MaxVersion == 2
\* Longest event batch handed to Append.
MaxBatch == 2
\* Highest version an aggregate is seeded with.
MaxSeed == 1
\* Most Apply and Raise calls made on an aggregate after it was seeded.
MaxCalls == 3
\* Longest event sequence handed to Restore.
MaxReplay == 3
\* Most maps handed to Metadata.Merge besides the receiver.
MaxMerge == 2
\* Most times a writer starts over after a version conflict.
MaxRetries == 2

\* Client goroutines calling the store concurrently.
Procs == {"p1", "p2"}
\* Stream identifiers used by the clients.
StreamIDs == {"s1", "s2"}

VARIABLES
    backend,        \* which implementation this store instance is
    extractor,      \* the store's MetadataExtractor option (or none)
    \* ---- stores/mem: Store ----
    streams,        \* Store.streams   : streamID -> sequence of storedEvent
    snapshots,      \* Store.snapshots : streamID -> snapshot (or NoSnapshot)
    mu,             \* Store.mu        : sync.RWMutex (writer, readers)
    \* ---- stores/pgx: the database behind EventStore.pool ----
    events,         \* committed rows of table events
    snapshotRows,   \* committed rows of table snapshots, by stream_id
    txRows,         \* rows inserted by each goroutine's open transaction
    \* ---- per goroutine ----
    pc,             \* position inside the current call ("idle" between calls)
    call,           \* arguments of the current (or last) call
    seq,            \* local `seq` of mem Store.Append
    currentVersion, \* local `currentVersion` of Append (both backends)
    ret,            \* what the last call returned
    \* ---- history (auxiliary, never read by an operation) ----
    appended,       \* streamID -> the non-empty batches whose Append returned success
    base,           \* streamID -> version of the stream when the behaviour starts
    pgErr,          \* per goroutine: what its last database statement raised
    saved,          \* streamID -> the last SaveSnapshot call that returned success
    \* ---- the library outside the stores ----
    impl,           \* which aggregate implementation the instances are
    agg,            \* aggregate instance -> its fields
    hist,           \* aggregate instance -> history of the calls made on it (auxiliary)
    input,          \* the event sequence handed to Restore
    todo,           \* aggregate instance -> events its Restore loop has not applied yet
    merge,          \* a call of Metadata.Merge: receiver, arguments, result
    svc             \* per goroutine: its position in the repository and service code

\* The options the store was constructed with.
config == <<backend, extractor>>

storeVars == <<config, streams, snapshots, mu, events, snapshotRows, txRows,
               pc, call, seq, currentVersion, ret, appended, base, pgErr, saved>>

libVars == <<impl, agg, hist, input, todo, merge, svc>>

vars == <<storeVars, libVars>>

memVars == <<streams, snapshots, mu>>
pgxVars == <<events, snapshotRows, txRows>>
locals == <<seq, currentVersion>>

(***************************************************************************)
(* Events, event types and codecs.                                         *)
(***************************************************************************)
\* storetest.Opened{ID: "1"}, storetest.Added{N: 5}, and an event type for
\* which the registry holds no codec.
Opened == [type |-> "Opened", data |-> "1"]
Added == [type |-> "Added", data |-> "5"]
Unregistered == [type |-> "Unregistered", data |-> "0"]
Events == {Opened, Added, Unregistered}

\* ges.EventType: the events name themselves through EventType().
EventType(e) == e.type

\* The type registry the store is built with, event type name -> the Go type
\* its JSON codec decodes to: storetest.Registry() and the registry of the
\* account example.
Registry == [t \in {"Opened", "Added", "AccountOpened", "MoneyDeposited"} |-> t]

\* jsonCodec[T].Encode: json.Marshal keeps the fields and drops the Go type.
Encode(e) == [f \in (DOMAIN e) \ {"type"} |-> e[f]]

\* jsonCodec[T].Decode: json.Unmarshal into a fresh value of type T.
Decode(T, b) == [f \in (DOMAIN b) \cup {"type"} |-> IF f = "type" THEN T ELSE b[f]]

RECURSIVE SeqsUpTo(_, _)
SeqsUpTo(S, n) ==
    IF n = 0 THEN {<<>>}
    ELSE LET shorter == SeqsUpTo(S, n - 1)
         IN  shorter \cup {Append(q, x) : q \in {r \in shorter : Len(r) = n - 1}, x \in S}

\* The event batches a client may pass to Append.
Batches == SeqsUpTo(Events, MaxBatch)

\* Snapshot states as the caller hands them to SaveSnapshot (a Go struct).
SnapStates == {[form |-> "struct", val |-> "A"], [form |-> "struct", val |-> "B"]}

\* encoding/json: Marshal of a state, and Unmarshal of it into map[string]any.
JSONMarshal(state) == [form |-> "json", val |-> state.val]
JSONUnmarshalMap(raw) == [form |-> "map", val |-> raw.val]

(***************************************************************************)
(* Metadata.  A Go map is a function from its keys; nil is a map too.      *)
(***************************************************************************)
MdKeys == {"tenant", "user"}
MdValues == {"t1", "u1", "u2"}

\* Metadata(nil) and the non-nil maps over MdKeys.
NilMd == [nil |-> TRUE, kv |-> <<>>]
Md(kv) == [nil |-> FALSE, kv |-> kv]
MdMaps == {Md(f) : f \in UNION {[K -> MdValues] : K \in SUBSET MdKeys}}

\* A copy that keeps the value a key already has.
CopyIntoKeepsFirst(out, other) ==
    [k \in DOMAIN out \cup DOMAIN other.kv |->
        IF k \in DOMAIN out THEN out[k] ELSE other.kv[k]]

\* for k, v := range other { out[k] = v }
CopyInto(out, other) ==
    [k \in DOMAIN out \cup DOMAIN other.kv |->
        IF k \in DOMAIN other.kv THEN other.kv[k] ELSE out[k]]

RECURSIVE CopyEach(_, _)
CopyEach(out, ms) ==
    IF ms = <<>> THEN out ELSE CopyEach(CopyInto(out, Head(ms)), Tail(ms))

\* Metadata.Merge
Merge(m, ms) ==
    LET out0 == <<>>
        out1 == IF ~m.nil THEN CopyInto(out0, m) ELSE out0
    IN  Md(CopyEach(out1, ms))

(***************************************************************************)
(* Calls and results.                                                      *)
(***************************************************************************)
None == "none"
NoCall == [op |-> "none"]
NoRet == [kind |-> "none"]
NoSnapshot == [found |-> FALSE]

\* No WithMetadataExtractor option, and the extractors the store may be built
\* with: each is given by the Metadata it extracts from the callers' context.
NoExtractor == [set |-> FALSE, md |-> NilMd]
Extractors ==
    {[set |-> TRUE, md |-> m] :
        m \in {NilMd, Md([tenant |-> "t1"]), Md([tenant |-> "t1", user |-> "u1"])}}

\* The explicit metadata clients pass to Append.  It is varied only against a
\* store built with an extractor, the one place where the store looks into it.
ClientMds ==
    IF extractor.set THEN {NilMd, Md(<<>>), Md([user |-> "u2"])} ELSE {NilMd}

AppendCalls(S) ==
    {[op |-> "Append", streamID |-> s, expectedVersion |-> v, events |-> b, md |-> m] :
        s \in S, v \in 0..MaxVersion, b \in Batches, m \in ClientMds}

LoadCalls(S) ==
    {[op |-> "Load", streamID |-> s, fromVersion |-> v] :
        s \in S, v \in (-1)..(MaxVersion + 1)}

SaveSnapshotCalls(S) ==
    {[op |-> "SaveSnapshot", streamID |-> s, version |-> v, state |-> st] :
        s \in S, v \in 0..MaxVersion, st \in SnapStates}

LoadSnapshotCalls(S) == {[op |-> "LoadSnapshot", streamID |-> s] : s \in S}

\* History entry of a successful Append call c: what it was asked to append.
Batch(c) == [expected |-> c.expectedVersion, events |-> c.events, md |-> c.md]

\* Variant: the error reports the caller's expected version as the actual one.
VersionConflictErrorEchoesExpected(s, expected, actual) ==
    [kind |-> "VersionConflictError", StreamID |-> s,
     ExpectedVersion |-> expected, ActualVersion |-> expected]

\* History entry of a successful SaveSnapshot call c that follows entry old:
\* what it saved, and whether it replaced a snapshot of a higher version.
SavedBy(c, old) ==
    [found |-> TRUE, version |-> c.version, state |-> c.state,
     lowered |-> old.found /\ old.version > c.version]

\* ges.VersionConflictError
VersionConflictError(s, expected, actual) ==
    [kind |-> "VersionConflictError", StreamID |-> s,
     ExpectedVersion |-> expected, ActualVersion |-> actual]

\* Any other error (fmt.Errorf("ges-pgx: ...")).
Error(msg) == [kind |-> "error", msg |-> msg]

\* Append's (version, nil)
Ok(v) == [kind |-> "ok", version |-> v]

\* Load's (events, last, nil)
Loaded(evs, last) == [kind |-> "loaded", events |-> evs, last |-> last]

\* SaveSnapshot's nil
Saved == [kind |-> "saved"]

\* ges.Snapshot
Snapshot(found, version, state) ==
    [kind |-> "snapshot", Found |-> found, Version |-> version, State |-> state]

\* Errors a database statement can raise: a *pgconn.PgError with a SQLSTATE
\* code, or an error of another type (context cancelled, connection lost).
NoErr == [pg |-> FALSE, code |-> "none"]
UniqueViolation == [pg |-> TRUE, code |-> "23505"]
QueryCanceled == [pg |-> TRUE, code |-> "57014"]
ConnErr == [pg |-> FALSE, code |-> "conn"]
\* Failures of the connection or the context, possible at every statement.
TransportErrors == {ConnErr}

\* A call that keeps its stream within MaxVersion events.
Bounded(c) == c.op = "Append" => c.expectedVersion + Len(c.events) <= MaxVersion

\* An idle goroutine enters call c of the store.
Enter(p, c) ==
    /\ pc[p] = "idle"
    /\ call' = [call EXCEPT ![p] = c]

\* Variant: the extracted metadata overrides the explicit one.
MergedMdExtractedWins(c) ==
    IF extractor.set THEN Merge(c.md, <<extractor.md>>) ELSE c.md

\* Append: md = extracted.Merge(md) when an extractor is configured.
MergedMd(c) ==
    IF extractor.set THEN Merge(extractor.md, <<c.md>>) ELSE c.md

\* The call of p returns r; its locals die.
Return(p, r) ==
    /\ pc' = [pc EXCEPT ![p] = "done"]
    /\ ret' = [ret EXCEPT ![p] = r]
    /\ seq' = [seq EXCEPT ![p] = <<>>]
    /\ currentVersion' = [currentVersion EXCEPT ![p] = 0]

\* The caller drops the result and is free to call again.
Reset(p) ==
    /\ pc[p] = "done"
    /\ pc' = [pc EXCEPT ![p] = "idle"]
    /\ call' = [call EXCEPT ![p] = NoCall]
    /\ ret' = [ret EXCEPT ![p] = NoRet]
    /\ pgErr' = [pgErr EXCEPT ![p] = NoErr]
    /\ UNCHANGED <<libVars, saved, config, memVars, pgxVars, locals, appended, base>>

(***************************************************************************)
(* stores/mem                                                              *)
(***************************************************************************)
\* Variant: a lock that does not wait for its holder to leave.
MuLockNoWait(p) == mu' = [mu EXCEPT !.writer = p]

\* sync.RWMutex.Lock: exclusive, waits for the writer and all readers to leave.
MuLock(p) ==
    /\ mu.writer = None
    /\ mu.readers = {}
    /\ mu' = [mu EXCEPT !.writer = p]

\* sync.RWMutex.RLock: shared, waits for the writer to leave.
MuRLock(p) ==
    /\ mu.writer = None
    /\ mu' = [mu EXCEPT !.readers = @ \cup {p}]

\* sync.RWMutex.Unlock and RUnlock (deferred: they run when the call returns).
MuUnlock(p) == mu' = [mu EXCEPT !.writer = None]
MuRUnlock(p) == mu' = [mu EXCEPT !.readers = @ \ {p}]

\* s.mu.Lock() at the top of Store.Append and Store.SaveSnapshot.
MemLockCall(p, c) ==
    /\ backend = "mem"
    /\ c.op \in {"Append", "SaveSnapshot"}
    /\ Enter(p, c)
    /\ pc' = [pc EXCEPT ![p] = IF c.op = "Append" THEN "check" ELSE "save"]
    /\ MuLock(p)
    /\ UNCHANGED <<libVars, saved, config, streams, snapshots, pgxVars, locals, ret,
                   appended, base, pgErr>>

\* A client goroutine calls Append or SaveSnapshot on a stream of S.
MemLock(p, S) ==
    \E c \in AppendCalls(S) \cup SaveSnapshotCalls(S) : Bounded(c) /\ MemLockCall(p, c)

\* s.mu.RLock() at the top of Store.Load and Store.LoadSnapshot.
MemRLockCall(p, c) ==
    /\ backend = "mem"
    /\ c.op \in {"Load", "LoadSnapshot"}
    /\ Enter(p, c)
    /\ pc' = [pc EXCEPT ![p] = IF c.op = "Load" THEN "load" ELSE "loadsnap"]
    /\ MuRLock(p)
    /\ UNCHANGED <<libVars, saved, config, streams, snapshots, pgxVars, locals, ret,
                   appended, base, pgErr>>

\* A client goroutine calls Load or LoadSnapshot on a stream of S.
MemRLock(p, S) == \E c \in LoadCalls(S) \cup LoadSnapshotCalls(S) : MemRLockCall(p, c)

\* Variant: the length is tested before the version.
MemAppendCheckEmptyFirst(p) ==
    LET c == call[p]
        sq == streams[c.streamID]
        cur == Len(sq)
    IN  /\ backend = "mem"
        /\ pc[p] = "check"
        /\ IF Len(c.events) = 0
           THEN /\ Return(p, Ok(c.expectedVersion))
                /\ MuUnlock(p)
           ELSE IF cur # c.expectedVersion
           THEN /\ Return(p, VersionConflictError(c.streamID, c.expectedVersion, cur))
                /\ MuUnlock(p)
           ELSE /\ pc' = [pc EXCEPT ![p] = "store"]
                /\ seq' = [seq EXCEPT ![p] = sq]
                /\ currentVersion' = [currentVersion EXCEPT ![p] = cur]
                /\ UNCHANGED <<ret, mu>>
        /\ UNCHANGED <<libVars, saved, config, streams, snapshots, pgxVars, call, appended,
                       base, pgErr>>

\* Store.Append: read the stream, compare the versions, return on an empty batch.
MemAppendCheck(p) ==
    LET c == call[p]
        sq == streams[c.streamID]
        cur == Len(sq)
    IN  /\ backend = "mem"
        /\ pc[p] = "check"
        /\ IF cur # c.expectedVersion
           THEN /\ Return(p, VersionConflictError(c.streamID, c.expectedVersion, cur))
                /\ MuUnlock(p)
           ELSE IF Len(c.events) = 0
           THEN /\ Return(p, Ok(c.expectedVersion))
                /\ MuUnlock(p)
           ELSE /\ pc' = [pc EXCEPT ![p] = "store"]
                /\ seq' = [seq EXCEPT ![p] = sq]
                /\ currentVersion' = [currentVersion EXCEPT ![p] = cur]
                /\ UNCHANGED <<ret, mu>>
        /\ UNCHANGED <<libVars, saved, config, streams, snapshots, pgxVars, call, appended,
                       base, pgErr>>

\* Variant: the version is assigned before it is incremented.
RECURSIVE AppendEachFromCurrent(_, _, _, _)
AppendEachFromCurrent(sq, cur, evs, md) ==
    IF evs = <<>> THEN sq
    ELSE AppendEachFromCurrent(
            Append(sq, [version |-> cur, payload |-> Head(evs), metadata |-> md,
                        typ |-> EventType(Head(evs))]),
            cur + 1, Tail(evs), md)

\* storedEvent{version, payload, metadata, typ}
storedEvent(v, e, md) ==
    [version |-> v, payload |-> e, metadata |-> md, typ |-> EventType(e)]

\* The loop of Store.Append: each event gets the next version number.
RECURSIVE AppendEach(_, _, _, _)
AppendEach(sq, cur, evs, md) ==
    IF evs = <<>> THEN sq
    ELSE AppendEach(Append(sq, storedEvent(cur + 1, Head(evs), md)),
                    cur + 1, Tail(evs), md)

\* Store.Append: append the batch, store the stream, return the new version.
MemAppendStore(p) ==
    LET c == call[p]
        newSeq == AppendEach(seq[p], currentVersion[p], c.events, MergedMd(c))
        newVersion == currentVersion[p] + Len(c.events)
    IN  /\ backend = "mem"
        /\ pc[p] = "store"
        /\ streams' = [streams EXCEPT ![c.streamID] = newSeq]
        /\ appended' = [appended EXCEPT ![c.streamID] = Append(@, Batch(c))]
        /\ Return(p, Ok(newVersion))
        /\ MuUnlock(p)
        /\ UNCHANGED <<libVars, saved, config, snapshots, pgxVars, call, base, pgErr>>

\* Store.Load: the payloads of seq[start:], and the version of the last event.
MemLoadResult(sq, fromVersion) ==
    IF Len(sq) = 0 THEN Loaded(<<>>, 0)
    ELSE LET start0 == IF fromVersion < 0 THEN 0 ELSE fromVersion
             start == IF start0 > Len(sq) THEN Len(sq) ELSE start0
             out == [i \in 1..(Len(sq) - start) |-> sq[start + i].payload]
         IN  Loaded(out, sq[Len(sq)].version)

\* Store.Load under the shared lock.
MemLoad(p) ==
    /\ backend = "mem"
    /\ pc[p] = "load"
    /\ Return(p, MemLoadResult(streams[call[p].streamID], call[p].fromVersion))
    /\ MuRUnlock(p)
    /\ UNCHANGED <<libVars, saved, config, streams, snapshots, pgxVars, call, appended, base, pgErr>>

\* Variant: saving a snapshot drops the events the snapshot covers.
MemSaveSnapshotCompacts(p) ==
    LET c == call[p]
    IN  /\ backend = "mem"
        /\ pc[p] = "save"
        /\ snapshots' = [snapshots EXCEPT ![c.streamID] =
                            [found |-> TRUE, version |-> c.version, state |-> c.state]]
        /\ streams' = [streams EXCEPT ![c.streamID] =
                          IF c.version >= Len(@) THEN <<>> ELSE @]
        /\ saved' = [saved EXCEPT ![c.streamID] = SavedBy(c, @)]
        /\ Return(p, Saved)
        /\ MuUnlock(p)
        /\ UNCHANGED <<libVars, config, pgxVars, call, appended, base, pgErr>>

\* Variant: a snapshot is replaced only by one of the same or a higher version.
MemSaveSnapshotKeepsNewer(p) ==
    LET c == call[p]
        old == snapshots[c.streamID]
    IN  /\ backend = "mem"
        /\ pc[p] = "save"
        /\ snapshots' = [snapshots EXCEPT ![c.streamID] =
                            IF old.found /\ old.version > c.version THEN old
                            ELSE [found |-> TRUE, version |-> c.version, state |-> c.state]]
        /\ saved' = [saved EXCEPT ![c.streamID] = SavedBy(c, @)]
        /\ Return(p, Saved)
        /\ MuUnlock(p)
        /\ UNCHANGED <<libVars, config, streams, pgxVars, call, appended, base, pgErr>>

\* Store.SaveSnapshot under the exclusive lock.
MemSaveSnapshot(p) ==
    LET c == call[p]
    IN  /\ backend = "mem"
        /\ pc[p] = "save"
        /\ snapshots' = [snapshots EXCEPT ![c.streamID] =
                            [found |-> TRUE, version |-> c.version, state |-> c.state]]
        /\ saved' = [saved EXCEPT ![c.streamID] = SavedBy(c, @)]
        /\ Return(p, Saved)
        /\ MuUnlock(p)
        /\ UNCHANGED <<libVars, config, streams, pgxVars, call, appended, base, pgErr>>

\* Variant: the lookup takes the snapshot of any stream that has one.
MemLoadSnapshotAnyStream(p) ==
    LET having == {s \in StreamIDs : snapshots[s].found}
        snap == IF having = {} THEN snapshots[call[p].streamID]
                ELSE snapshots[CHOOSE s \in having : TRUE]
    IN  /\ backend = "mem"
        /\ pc[p] = "loadsnap"
        /\ Return(p, IF snap.found
                     THEN Snapshot(TRUE, snap.version, snap.state)
                     ELSE Snapshot(FALSE, 0, None))
        /\ MuRUnlock(p)
        /\ UNCHANGED <<libVars, saved, config, streams, snapshots, pgxVars, call, appended,
                       base, pgErr>>

\* Store.LoadSnapshot under the shared lock.
MemLoadSnapshot(p) ==
    LET snap == snapshots[call[p].streamID]
    IN  /\ backend = "mem"
        /\ pc[p] = "loadsnap"
        /\ Return(p, IF snap.found
                     THEN Snapshot(TRUE, snap.version, snap.state)
                     ELSE Snapshot(FALSE, 0, None))
        /\ MuRUnlock(p)
        /\ UNCHANGED <<libVars, saved, config, streams, snapshots, pgxVars, call, appended,
                       base, pgErr>>

(***************************************************************************)
(* stores/pgx.  The database is PostgreSQL at its default isolation level  *)
(* (READ COMMITTED): a statement sees the rows committed before it started *)
(* and the rows of its own transaction; an INSERT whose primary key is     *)
(* held by a row of another open transaction waits for that transaction to *)
(* end; Commit publishes a transaction's rows at once.                     *)
(***************************************************************************)
\* json.Marshal(md): null for a nil map, an object otherwise.
MarshalMd(md) == [json |-> IF md.nil THEN "null" ELSE "object", kv |-> md.kv]

\* A row of table events, as the INSERT of Append writes it.
InsertedRow(s, v, e, md) ==
    [stream_id |-> s, version |-> v, event_type |-> EventType(e), payload |-> Encode(e),
     metadata |-> MarshalMd(md)]

\* The row of an event appended with nil metadata to a store without extractor.
EventRow(s, v, e) == InsertedRow(s, v, e, NilMd)

\* The rows a statement of p's transaction sees.
Visible(p) == events \cup txRows[p]

\* SELECT COALESCE(MAX(version), 0) FROM events WHERE stream_id = $1
SelectMaxVersion(rows, s) ==
    LET vs == {r.version : r \in {x \in rows : x.stream_id = s}}
    IN  IF vs = {} THEN 0 ELSE CHOOSE v \in vs : \A w \in vs : w <= v

\* Variant: a table without the primary key.
NoPrimaryKey(rows, s, v) == FALSE

\* PRIMARY KEY (stream_id, version): the key is taken by a row in rows.
KeyTaken(rows, s, v) == \E r \in rows : r.stream_id = s /\ r.version = v

\* pgErrorCode: the SQLSTATE code of a *pgconn.PgError, "" for other errors.
pgErrorCode(err) == IF err.pg THEN err.code ELSE ""

\* Variant: the test looks for SQLSTATE 23503 (foreign_key_violation).
isForeignKeyViolation(err) == pgErrorCode(err) = "23503"

\* isUniqueViolation
isUniqueViolation(err) == pgErrorCode(err) = "23505"

\* Variant: the INSERT runs on the pool, outside the transaction.
InsertRowOnPool(p, row) ==
    /\ events' = events \cup {row}
    /\ UNCHANGED txRows

\* tx.Exec of the INSERT: the row belongs to p's transaction until it commits.
InsertRow(p, row) ==
    /\ txRows' = [txRows EXCEPT ![p] = @ \cup {row}]
    /\ UNCHANGED events

\* Variant: the deferred call commits what was inserted.
RollbackCommits(p) ==
    /\ events' = events \cup txRows[p]
    /\ txRows' = [txRows EXCEPT ![p] = {}]

\* tx.Rollback (deferred; a no-op after a successful Commit).
Rollback(p) ==
    /\ txRows' = [txRows EXCEPT ![p] = {}]
    /\ UNCHANGED events

\* Variant: the commit replaces the table's rows by the transaction's.
CommitReplaces(p) ==
    /\ events' = txRows[p]
    /\ txRows' = [txRows EXCEPT ![p] = {}]

\* tx.Commit
Commit(p) ==
    /\ events' = events \cup txRows[p]
    /\ txRows' = [txRows EXCEPT ![p] = {}]

\* EventStore.Append: s.pool.Begin(ctx)
PgxBeginCall(p, c) ==
    /\ backend = "pgx"
    /\ c.op = "Append"
    /\ Enter(p, c)
    /\ \E err \in {NoErr} \cup TransportErrors :
          /\ pgErr' = [pgErr EXCEPT ![p] = err]
          /\ IF err = NoErr
             THEN /\ pc' = [pc EXCEPT ![p] = "read"]
                  /\ UNCHANGED <<ret, locals>>
             ELSE Return(p, Error("ges-pgx: could not begin transaction"))
    /\ UNCHANGED <<libVars, saved, config, memVars, pgxVars, appended, base>>

\* A client goroutine calls Append on a stream of S.
PgxBegin(p, S) == \E c \in AppendCalls(S) : Bounded(c) /\ PgxBeginCall(p, c)

\* EventStore.Append: read the current version in the transaction, compare.
PgxReadVersion(p) ==
    LET c == call[p]
        cur == SelectMaxVersion(Visible(p), c.streamID)
    IN  /\ backend = "pgx"
        /\ pc[p] = "read"
        /\ \E err \in {NoErr} \cup TransportErrors :
              /\ pgErr' = [pgErr EXCEPT ![p] = err]
              /\ IF err # NoErr
                 THEN /\ Return(p, Error("ges-pgx: could not get current version"))
                      /\ Rollback(p)
                 ELSE IF cur # c.expectedVersion
                 THEN /\ Return(p, VersionConflictError(c.streamID, c.expectedVersion, cur))
                      /\ Rollback(p)
                 ELSE /\ pc' = [pc EXCEPT ![p] =
                                   IF Len(c.events) = 0 THEN "commit" ELSE "insert"]
                      /\ currentVersion' = [currentVersion EXCEPT ![p] = cur]
                      /\ UNCHANGED <<ret, seq, events, txRows>>
        /\ UNCHANGED <<libVars, saved, config, memVars, snapshotRows, call, appended, base>>

\* What the INSERT of key (s, v) by p's transaction raises.  It waits (no
\* outcome) while another open transaction holds the key.
InsertOutcomes(p, s, v) ==
    IF KeyTaken(events, s, v) THEN {UniqueViolation, QueryCanceled, ConnErr}
    ELSE IF \E q \in Procs \ {p} : KeyTaken(txRows[q], s, v) THEN {QueryCanceled, ConnErr}
    ELSE {NoErr, QueryCanceled, ConnErr}

\* EventStore.Append: one iteration of the insert loop.
PgxInsert(p) ==
    LET c == call[p]
        e == c.events[currentVersion[p] - c.expectedVersion + 1]
        eventType == EventType(e)
        v == currentVersion[p] + 1
    IN  /\ backend = "pgx"
        /\ pc[p] = "insert"
        /\ IF eventType \notin DOMAIN Registry
           THEN /\ Return(p, Error("ges-pgx: no codec registered for event type"))
                /\ Rollback(p)
                /\ UNCHANGED pgErr
           ELSE \E err \in InsertOutcomes(p, c.streamID, v) :
                  /\ pgErr' = [pgErr EXCEPT ![p] = err]
                  /\ IF err = NoErr
                     THEN /\ InsertRow(p, InsertedRow(c.streamID, v, e, MergedMd(c)))
                          /\ currentVersion' = [currentVersion EXCEPT ![p] = v]
                          /\ pc' = [pc EXCEPT ![p] =
                                       IF v = c.expectedVersion + Len(c.events)
                                       THEN "commit" ELSE "insert"]
                          /\ UNCHANGED <<ret, seq>>
                     ELSE IF isUniqueViolation(err)
                     THEN /\ Return(p, VersionConflictError(c.streamID, c.expectedVersion, v))
                          /\ Rollback(p)
                     ELSE /\ Return(p, Error("ges-pgx: could not insert event"))
                          /\ Rollback(p)
        /\ UNCHANGED <<libVars, saved, config, memVars, snapshotRows, call, appended, base>>

\* EventStore.Append: tx.Commit and the return of the new version.
PgxCommit(p) ==
    LET c == call[p]
    IN  /\ backend = "pgx"
        /\ pc[p] = "commit"
        /\ \E err \in {NoErr} \cup TransportErrors :
              /\ pgErr' = [pgErr EXCEPT ![p] = err]
              /\ IF err # NoErr
                 THEN /\ Return(p, Error("ges-pgx: could not commit transaction"))
                      /\ Rollback(p)
                      /\ UNCHANGED appended
                 ELSE /\ Commit(p)
                      /\ Return(p, IF Len(c.events) = 0 THEN Ok(c.expectedVersion)
                                   ELSE Ok(currentVersion[p]))
                      /\ appended' = IF Len(c.events) = 0 THEN appended
                                     ELSE [appended EXCEPT ![c.streamID] = Append(@, Batch(c))]
        /\ UNCHANGED <<libVars, saved, config, memVars, snapshotRows, call, base>>

\* Variant: ORDER BY version DESC
RECURSIVE OrderByVersionDesc(_)
OrderByVersionDesc(rows) ==
    IF rows = {} THEN <<>>
    ELSE LET first == CHOOSE r \in rows : \A x \in rows : r.version >= x.version
         IN  <<first>> \o OrderByVersionDesc(rows \ {first})

\* ORDER BY version ASC
RECURSIVE OrderByVersion(_)
OrderByVersion(rows) ==
    IF rows = {} THEN <<>>
    ELSE LET first == CHOOSE r \in rows : \A x \in rows : r.version <= x.version
         IN  <<first>> \o OrderByVersion(rows \ {first})

\* Variant: WHERE version >= $2
PgxLoadResultInclusive(rows, s, fromVersion) ==
    LET ordered == OrderByVersion({r \in rows : r.stream_id = s /\ r.version >= fromVersion})
    IN  IF \E i \in 1..Len(ordered) : ordered[i].event_type \notin DOMAIN Registry
        THEN Error("unknown event type")
        ELSE Loaded([i \in 1..Len(ordered) |->
                        Decode(Registry[ordered[i].event_type], ordered[i].payload)],
                    IF Len(ordered) = 0 THEN 0 ELSE ordered[Len(ordered)].version)

\* EventStore.Load: the query and the decoding loop over its rows.
PgxLoadResult(rows, s, fromVersion) ==
    LET ordered == OrderByVersion({r \in rows : r.stream_id = s /\ r.version > fromVersion})
    IN  IF \E i \in 1..Len(ordered) : ordered[i].event_type \notin DOMAIN Registry
        THEN Error("unknown event type")
        ELSE Loaded([i \in 1..Len(ordered) |->
                        Decode(Registry[ordered[i].event_type], ordered[i].payload)],
                    IF Len(ordered) = 0 THEN 0 ELSE ordered[Len(ordered)].version)

\* EventStore.Load: a single query outside any transaction.
PgxLoadCall(p, c) ==
    /\ backend = "pgx"
    /\ c.op = "Load"
    /\ \E err \in {NoErr} \cup TransportErrors :
          /\ Enter(p, c)
          /\ pgErr' = [pgErr EXCEPT ![p] = err]
          /\ Return(p, IF err # NoErr THEN Error("ges-pgx: could not query events")
                       ELSE PgxLoadResult(events, c.streamID, c.fromVersion))
    /\ UNCHANGED <<libVars, saved, config, memVars, pgxVars, appended, base>>

\* A client goroutine calls Load on a stream of S.
PgxLoad(p, S) == \E c \in LoadCalls(S) : PgxLoadCall(p, c)

\* EventStore.SaveSnapshot: INSERT ... ON CONFLICT (stream_id) DO UPDATE
PgxSaveSnapshotCall(p, c) ==
    /\ backend = "pgx"
    /\ c.op = "SaveSnapshot"
    /\ \E err \in {NoErr} \cup TransportErrors :
          /\ Enter(p, c)
          /\ pgErr' = [pgErr EXCEPT ![p] = err]
          /\ IF err # NoErr
             THEN /\ Return(p, Error("exec"))
                  /\ UNCHANGED <<snapshotRows, saved>>
             ELSE /\ Return(p, Saved)
                  /\ snapshotRows' = [snapshotRows EXCEPT ![c.streamID] =
                        [found |-> TRUE, version |-> c.version,
                         state |-> JSONMarshal(c.state)]]
                  /\ saved' = [saved EXCEPT ![c.streamID] = SavedBy(c, @)]
    /\ UNCHANGED <<libVars, config, memVars, events, txRows, appended, base>>

\* A client goroutine calls SaveSnapshot on a stream of S.
PgxSaveSnapshot(p, S) == \E c \in SaveSnapshotCalls(S) : PgxSaveSnapshotCall(p, c)

\* EventStore.LoadSnapshot: SELECT version, state, at FROM snapshots
PgxLoadSnapshotCall(p, c) ==
    /\ backend = "pgx"
    /\ c.op = "LoadSnapshot"
    /\ \E err \in {NoErr} \cup TransportErrors :
          LET row == snapshotRows[c.streamID]
          IN  /\ Enter(p, c)
              /\ pgErr' = [pgErr EXCEPT ![p] = err]
              /\ Return(p, IF err # NoErr THEN Error("ges-pgx: could not scan snapshot")
                           ELSE IF ~row.found THEN Snapshot(FALSE, 0, None)
                           ELSE Snapshot(TRUE, row.version, JSONUnmarshalMap(row.state)))
    /\ UNCHANGED <<libVars, saved, config, memVars, pgxVars, appended, base>>

\* A client goroutine calls LoadSnapshot on a stream of S.
PgxLoadSnapshot(p, S) == \E c \in LoadSnapshotCalls(S) : PgxLoadSnapshotCall(p, c)

(***************************************************************************)
(* Aggregates.  `impl` says which implementation the instances are: "Base" *)
(* is the example Account that embeds ges.Base and mutates its state in    *)
(* the applier `when`; "Account" is the Account that keeps id, version and *)
(* pending events itself.                                                  *)
(***************************************************************************)
\* Aggregate instances.
Aggs == {"a1", "a2"}

\* AccountOpened{AccountID, Owner, Initial} and MoneyDeposited{Amount}.
AccountOpened(id, owner, initial) ==
    [type |-> "AccountOpened", AccountID |-> id, Owner |-> owner, Initial |-> initial]
MoneyDeposited(amount) == [type |-> "MoneyDeposited", Amount |-> amount]

\* Events handed to the aggregates; Added is an event neither switch knows.
AcctEvents ==
    {AccountOpened("1", "Taro", 10), AccountOpened("2", "Jiro", 0),
     MoneyDeposited(5), Added}

\* var a Account: the zero value.  `mutations` counts the runs of the
\* state-mutation code (the applier, or the switch of Account.Apply).
ZeroAccount ==
    [id |-> "", version |-> 0, pending |-> <<>>, applier |-> "nil",
     owner |-> "", balance |-> 0, opened |-> FALSE, mutations |-> 0]

\* Base.Init(streamID, applier)
BaseInit(r, streamID) == [r EXCEPT !.id = streamID, !.applier = "when"]

\* Base.SetVersion
SetVersion(r, v) == [r EXCEPT !.version = v]

\* Account.when, the applier of the Account embedding Base.
when(r, e) ==
    LET m == [r EXCEPT !.mutations = @ + 1]
    IN  IF e.type = "AccountOpened"
        THEN [m EXCEPT !.id = <<"Account:", e.AccountID>>, !.owner = e.Owner,
                       !.balance = e.Initial, !.opened = TRUE]
        ELSE IF e.type = "MoneyDeposited"
        THEN [m EXCEPT !.balance = @ + e.Amount]
        ELSE m

\* Base.Apply
BaseApply(r, e) ==
    LET m == IF r.applier # "nil" THEN when(r, e) ELSE r
    IN  [m EXCEPT !.version = @ + 1]

\* A Raise that enqueues the event without applying it.
BaseRaiseOnlyEnqueues(r, e) == [r EXCEPT !.pending = Append(@, e)]

\* Base.Raise
BaseRaise(r, e) ==
    LET m == BaseApply(r, e)
    IN  [m EXCEPT !.pending = Append(@, e)]

\* A Flush that reports the current version as the expected one.
BaseFlushExpectsCurrent(r) ==
    [agg |-> [r EXCEPT !.pending = <<>>],
     events |-> r.pending,
     expectedVersion |-> r.version]

\* Base.Flush: the aggregate afterwards, and what the call returns.
BaseFlush(r) ==
    [agg |-> [r EXCEPT !.pending = <<>>],
     events |-> r.pending,
     expectedVersion |-> r.version - Len(r.pending)]

\* Base.StreamID and Account.StreamID
BaseStreamID(r) == r.id
AccountStreamID(r) == <<"Account:", r.id>>

\* Account.Apply of the Account without Base.
AccountApply(r, e) ==
    LET m == [r EXCEPT !.mutations = @ + 1]
        n == IF e.type = "AccountOpened"
             THEN [m EXCEPT !.id = e.AccountID, !.owner = e.Owner,
                            !.balance = e.Initial, !.opened = TRUE]
             ELSE IF e.type = "MoneyDeposited"
             THEN [m EXCEPT !.balance = @ + e.Amount]
             ELSE m
    IN  [n EXCEPT !.version = @ + 1]

\* Account.record
AccountRecord(r, e) ==
    LET m == AccountApply(r, e)
    IN  [m EXCEPT !.pending = Append(@, e)]

\* Account.Flush
AccountFlush(r) ==
    LET n == Len(r.pending)
    IN  [agg |-> [r EXCEPT !.pending = <<>>],
         events |-> [i \in 1..n |-> r.pending[i]],
         expectedVersion |-> r.version - n]

\* The methods of the Aggregate interface, by implementation.
ApplyOf(r, e) == IF impl = "Base" THEN BaseApply(r, e) ELSE AccountApply(r, e)
RaiseOf(r, e) == IF impl = "Base" THEN BaseRaise(r, e) ELSE AccountRecord(r, e)
FlushOf(r) == IF impl = "Base" THEN BaseFlush(r) ELSE AccountFlush(r)
StreamIDOf(r) == IF impl = "Base" THEN BaseStreamID(r) ELSE AccountStreamID(r)
Version(r) == r.version

\* History of an instance: the version it was last seeded with, the Apply and
\* Raise calls made since, the events raised since the last Flush, the last
\* call, its argument and what the last Flush returned.
NoHist ==
    [seed |-> 0, calls |-> 0, raised |-> <<>>, last |-> "none", arg |-> None,
     events |-> <<>>, expectedVersion |-> 0]

\* a.Init(streamID, a.when) on an instance that has no applier yet.
AggInit(a) ==
    /\ impl = "Base"
    /\ agg[a].applier = "nil"
    /\ agg' = [agg EXCEPT ![a] = BaseInit(@, <<"Account:", "1">>)]
    /\ hist' = [hist EXCEPT ![a].last = "Init", ![a].arg = None]
    /\ UNCHANGED <<storeVars, svc, impl, input, todo, merge>>

\* Seeding the version from a snapshot, before any event is applied:
\* Base.SetVersion(v), or the assignment a.version = s.Version of
\* AccountRepository.Load.
AggSetVersion(a) ==
    /\ hist[a].last \in {"none", "Init"}
    /\ \E v \in 0..MaxSeed :
          /\ agg' = [agg EXCEPT ![a] = SetVersion(@, v)]
          /\ hist' = [hist EXCEPT ![a].seed = v, ![a].calls = 0,
                                  ![a].last = "SetVersion", ![a].arg = None]
    /\ UNCHANGED <<storeVars, svc, impl, input, todo, merge>>

\* a.Apply(e)
Apply(a, e) ==
    /\ hist[a].calls < MaxCalls
    /\ agg' = [agg EXCEPT ![a] = ApplyOf(@, e)]
    /\ hist' = [hist EXCEPT ![a].calls = @ + 1, ![a].last = "Apply", ![a].arg = e]
    /\ UNCHANGED <<storeVars, svc, impl, input, merge>>

AggApply(a) == \E e \in AcctEvents : Apply(a, e) /\ UNCHANGED todo

\* a.Raise(e), a.record(e)
AggRaise(a) ==
    /\ hist[a].calls < MaxCalls
    /\ \E e \in AcctEvents :
          /\ agg' = [agg EXCEPT ![a] = RaiseOf(@, e)]
          /\ hist' = [hist EXCEPT ![a].calls = @ + 1, ![a].raised = Append(@, e),
                                  ![a].last = "Raise", ![a].arg = e]
    /\ UNCHANGED <<storeVars, svc, impl, input, todo, merge>>

\* a.Flush()
AggFlush(a) ==
    LET f == FlushOf(agg[a])
    IN  /\ agg' = [agg EXCEPT ![a] = f.agg]
        /\ hist' = [hist EXCEPT ![a].raised = <<>>, ![a].last = "Flush", ![a].arg = None,
                                ![a].events = f.events,
                                ![a].expectedVersion = f.expectedVersion]
        /\ UNCHANGED <<storeVars, svc, impl, input, todo, merge>>

\* A Restore that replays by raising the events.
RestoreByRaise(a) ==
    /\ todo[a] # <<>>
    /\ hist[a].calls < MaxCalls
    /\ agg' = [agg EXCEPT ![a] = RaiseOf(@, Head(todo[a]))]
    /\ hist' = [hist EXCEPT ![a].calls = @ + 1, ![a].last = "Apply",
                            ![a].arg = Head(todo[a])]
    /\ todo' = [todo EXCEPT ![a] = Tail(@)]
    /\ UNCHANGED <<storeVars, svc, impl, input, merge>>

\* Account.Restore: one iteration of the loop over the events.
Restore(a) ==
    /\ todo[a] # <<>>
    /\ Apply(a, Head(todo[a]))
    /\ todo' = [todo EXCEPT ![a] = Tail(@)]

\* No call of Merge made yet.
MergeIdle == [m |-> NilMd, ms |-> <<>>, out |-> NilMd, done |-> FALSE]

\* m.Merge(ms...)
MergeCall ==
    /\ ~merge.done
    /\ merge' = [merge EXCEPT !.out = Merge(merge.m, merge.ms), !.done = TRUE]
    /\ UNCHANGED <<storeVars, svc, impl, agg, hist, input, todo>>

(***************************************************************************)
(* The account example: commands, snapshots, AccountRepository and the     *)
(* clients that drive it.  Goroutine p works on its own Account instance   *)
(* AggOf[p]; svc[p].at is its position: "idle", inside Repository.Load     *)
(* ("LoadSnapshot", then "Load"), holding a loaded aggregate ("loaded"),   *)
(* inside Repository.Save ("Append"), or "returned" with svc[p].result.    *)
(* The store calls the repository makes are the calls of the store model;  *)
(* the repository acts again when the call has returned (pc[p] = "done").  *)
(***************************************************************************)
AggOf == [p \in Procs |-> IF p = "p1" THEN "a1" ELSE "a2"]

\* The Go string "Account:" + id as the key of a stream of the store: "s1" is
\* "Account:1" and "s2" is "Account:2".
StreamKey(streamID) ==
    CASE streamID = <<"Account:", "1">> -> "s1"
      [] streamID = <<"Account:", "2">> -> "s2"

\* OpenAccountCommand and DepositCommand
OpenAccountCommand(id, owner, initial) ==
    [type |-> "OpenAccountCommand", AccountID |-> id, Owner |-> owner, Initial |-> initial]
DepositCommand(id, amount) ==
    [type |-> "DepositCommand", AccountID |-> id, Amount |-> amount]

\* The commands the clients issue, all on account "1".
Commands == {OpenAccountCommand("1", "Taro", 10), DepositCommand("1", 5)}

\* extractAccountID
extractAccountID(cmd) == cmd.AccountID

\* Account.Handle: the aggregate afterwards and the error returned ("nil" or
\* the message).
Handle(r, cmd) ==
    IF cmd.type = "OpenAccountCommand"
    THEN IF r.opened THEN [agg |-> r, err |-> "account already opened"]
         ELSE IF cmd.AccountID = "" THEN [agg |-> r, err |-> "empty account id"]
         ELSE IF cmd.Initial < 0
         THEN [agg |-> r, err |-> "initial balance cannot be negative"]
         ELSE [agg |-> RaiseOf(r, AccountOpened(cmd.AccountID, cmd.Owner, cmd.Initial)),
               err |-> "nil"]
    ELSE IF cmd.type = "DepositCommand"
    THEN IF ~r.opened THEN [agg |-> r, err |-> "account not opened"]
         ELSE IF cmd.Amount <= 0 THEN [agg |-> r, err |-> "invalid deposit amount"]
         ELSE [agg |-> RaiseOf(r, MoneyDeposited(cmd.Amount)), err |-> "nil"]
    ELSE [agg |-> r, err |-> "unknown command type"]

\* Account.Restore: the whole loop.
RECURSIVE RestoreAll(_, _)
RestoreAll(r, evs) ==
    IF evs = <<>> THEN r ELSE RestoreAll(ApplyOf(r, Head(evs)), Tail(evs))

\* serializeState: the AccountSnapshot of an Account.
serializeState(r) ==
    [form |-> "struct",
     val |-> [ID |-> r.id, Owner |-> r.owner, Balance |-> r.balance, Version |-> r.version]]

\* decodeSnapshot: State -> JSON -> AccountSnapshot.  The State of a snapshot
\* that was found is a value with a form; the nil State has the form "nil".
decodeSnapshot(snap) ==
    IF ~snap.Found \/ snap.State.form = "nil"
    THEN [ok |-> FALSE, s |-> [ID |-> "", Owner |-> "", Balance |-> 0, Version |-> 0]]
    ELSE [ok |-> TRUE, s |-> JSONMarshal(snap.State).val]

\* AccountRepository.Load: the aggregate seeded from snapshot s.
Seeded(r, s) ==
    [r EXCEPT !.id = s.ID, !.owner = s.Owner, !.balance = s.Balance,
              !.version = s.Version, !.opened = (s.ID # "")]

\* Variant: only an aggregate that is behind the store is a mismatch.
BehindStore(last, version) == version < last

\* AccountRepository.Load: if last != a.Version()
VersionMismatch(last, version) == last # version

\* A goroutine that is in no call of the repository or the service.  The
\* fields after `result` are history: the version and the events the last
\* Load gave the aggregate, the events raised on it since, what Save flushed,
\* the Append calls Save made, what the version check of Load compared, and
\* the times the goroutine started over after a version conflict.
NoSvc ==
    [at |-> "idle", id |-> "", op |-> "none", result |-> NoRet, aggregate |-> FALSE,
     loaded |-> 0, seen |-> <<>>, raised |-> <<>>, flushed |-> <<>>, expected |-> 0,
     appends |-> 0, last |-> 0, restored |-> 0, tries |-> 0]

\* What a call of the repository returns besides an aggregate.
Nil == [kind |-> "ok"]

\* The goroutine p drops the result of the store call it made.
Forget(p) ==
    /\ pc' = [pc EXCEPT ![p] = "idle"]
    /\ call' = [call EXCEPT ![p] = NoCall]
    /\ ret' = [ret EXCEPT ![p] = NoRet]
    /\ pgErr' = [pgErr EXCEPT ![p] = NoErr]

\* The statements of the store's Load and LoadSnapshot after the first.
LoadSteps(p) ==
    \/ MemLoad(p)
    \/ MemLoadSnapshot(p)

\* The statements of the store's Append after the first.
AppendSteps(p) ==
    \/ MemAppendCheck(p)
    \/ MemAppendStore(p)
    \/ PgxReadVersion(p)
    \/ PgxInsert(p)
    \/ PgxCommit(p)

\* What the repository steps leave alone.
repoFrame == <<saved, config, memVars, pgxVars, locals, appended, base,
               impl, hist, input, todo, merge>>

\* AccountRepository.Load(ctx, id): streamID := "Account:" + id; var a Account
RepoLoad(p, id) ==
    /\ svc[p].at = "idle"
    /\ pc[p] = "idle"
    /\ agg' = [agg EXCEPT ![AggOf[p]] = ZeroAccount]
    /\ svc' = [svc EXCEPT ![p] = [NoSvc EXCEPT !.at = "LoadSnapshot", !.id = id,
                                               !.op = "Load", !.tries = svc[p].tries]]
    /\ UNCHANGED <<repoFrame, pc, call, ret, pgErr>>

\* AccountRepository.Load: r.store.LoadSnapshot(ctx, streamID)
RepoLoadSnapshot(p) ==
    /\ svc[p].at = "LoadSnapshot"
    /\ LET c == [op |-> "LoadSnapshot", streamID |-> StreamKey(<<"Account:", svc[p].id>>)]
       IN  MemRLockCall(p, c) \/ PgxLoadSnapshotCall(p, c)

\* AccountRepository.Load: the snapshot came back; decode it and seed a.
RepoSeed(p) ==
    /\ svc[p].at = "LoadSnapshot"
    /\ pc[p] = "done"
    /\ IF ret[p].kind # "snapshot"
       THEN /\ svc' = [svc EXCEPT ![p].at = "returned", ![p].result = ret[p]]
            /\ agg' = [agg EXCEPT ![AggOf[p]] = ZeroAccount]
       ELSE LET d == decodeSnapshot(ret[p])
            IN  /\ svc' = [svc EXCEPT ![p].at = "Load"]
                /\ agg' = [agg EXCEPT ![AggOf[p]] = IF d.ok THEN Seeded(@, d.s) ELSE @]
    /\ Forget(p)
    /\ UNCHANGED repoFrame

\* AccountRepository.Load: r.store.Load(ctx, streamID, a.Version())
RepoLoadEvents(p) ==
    /\ svc[p].at = "Load"
    /\ LET c == [op |-> "Load", streamID |-> StreamKey(<<"Account:", svc[p].id>>),
                 fromVersion |-> Version(agg[AggOf[p]])]
       IN  MemRLockCall(p, c) \/ PgxLoadCall(p, c)

\* AccountRepository.Load: the events came back; Restore them, compare the
\* versions and return the aggregate or the error.
RepoRestore(p) ==
    /\ svc[p].at = "Load"
    /\ pc[p] = "done"
    /\ IF ret[p].kind # "loaded"
       THEN /\ svc' = [svc EXCEPT ![p].at = "returned", ![p].result = ret[p]]
            /\ agg' = [agg EXCEPT ![AggOf[p]] = ZeroAccount]
       ELSE LET a == RestoreAll(agg[AggOf[p]], ret[p].events)
            IN  IF VersionMismatch(ret[p].last, Version(a))
                THEN /\ svc' = [svc EXCEPT ![p].at = "returned",
                                           ![p].result = Error("version mismatch after Restore"),
                                           ![p].last = ret[p].last,
                                           ![p].restored = Version(a)]
                     /\ agg' = [agg EXCEPT ![AggOf[p]] = ZeroAccount]
                ELSE /\ svc' = [svc EXCEPT ![p].at = "loaded", ![p].result = Nil,
                                           ![p].aggregate = TRUE,
                                           ![p].loaded = Version(a),
                                           ![p].seen = ret[p].events,
                                           ![p].last = ret[p].last,
                                           ![p].restored = Version(a)]
                     /\ agg' = [agg EXCEPT ![AggOf[p]] = a]
    /\ Forget(p)
    /\ UNCHANGED repoFrame

\* acc.Handle(cmd) on the loaded aggregate.  As AccountService.Handle does,
\* the client gives up when the command is rejected.
AccHandle(p, cmd) ==
    /\ svc[p].at = "loaded"
    /\ extractAccountID(cmd) = svc[p].id
    /\ LET h == Handle(agg[AggOf[p]], cmd)
       IN  /\ agg' = [agg EXCEPT ![AggOf[p]] = h.agg]
           /\ svc' = IF h.err = "nil"
                     THEN [svc EXCEPT ![p].raised = Append(@, h.agg.pending[Len(h.agg.pending)])]
                     ELSE [svc EXCEPT ![p].at = "returned", ![p].op = "Handle",
                                      ![p].result = Error(h.err)]
    /\ UNCHANGED <<repoFrame, pc, call, ret, pgErr>>

\* Variant: Save calls Append with whatever Flush returned, an empty batch too.
RepoSaveAppendsEmpty(p) ==
    /\ svc[p].at = "loaded"
    /\ LET f == FlushOf(agg[AggOf[p]])
       IN  /\ agg' = [agg EXCEPT ![AggOf[p]] = f.agg]
           /\ svc' = [svc EXCEPT ![p].op = "Save",
                                 ![p].flushed = f.events,
                                 ![p].expected = f.expectedVersion,
                                 ![p].at = "Append",
                                 ![p].result = Nil]
    /\ UNCHANGED <<repoFrame, pc, call, ret, pgErr>>

\* AccountRepository.Save: a.Flush(), and the return when nothing is pending.
RepoSave(p) ==
    /\ svc[p].at = "loaded"
    /\ LET f == FlushOf(agg[AggOf[p]])
       IN  /\ agg' = [agg EXCEPT ![AggOf[p]] = f.agg]
           /\ svc' = [svc EXCEPT ![p].op = "Save",
                                 ![p].flushed = f.events,
                                 ![p].expected = f.expectedVersion,
                                 ![p].at = IF Len(f.events) = 0 THEN "returned" ELSE "Append",
                                 ![p].result = Nil]
    /\ UNCHANGED <<repoFrame, pc, call, ret, pgErr>>

\* Variant: Save appends at whatever version the stream has by now.
RepoAppendAtCurrent(p) ==
    /\ svc[p].at = "Append"
    /\ LET s == StreamKey(StreamIDOf(agg[AggOf[p]]))
           c == [op |-> "Append", streamID |-> s,
                 expectedVersion |-> IF backend = "mem" THEN Len(streams[s])
                                     ELSE SelectMaxVersion(events, s),
                 events |-> svc[p].flushed, md |-> NilMd]
       IN  MemLockCall(p, c) \/ PgxBeginCall(p, c)

\* AccountRepository.Save: r.store.Append(ctx, a.StreamID(), expected, evs, md)
RepoAppend(p) ==
    /\ svc[p].at = "Append"
    /\ LET c == [op |-> "Append", streamID |-> StreamKey(StreamIDOf(agg[AggOf[p]])),
                 expectedVersion |-> svc[p].expected, events |-> svc[p].flushed,
                 md |-> NilMd]
       IN  MemLockCall(p, c) \/ PgxBeginCall(p, c)

\* AccountRepository.Save: return err
RepoSaved(p) ==
    /\ svc[p].at = "Append"
    /\ pc[p] = "done"
    /\ svc' = [svc EXCEPT ![p].at = "returned", ![p].appends = @ + 1,
                          ![p].result = IF ret[p].kind = "ok" THEN Nil ELSE ret[p]]
    /\ Forget(p)
    /\ UNCHANGED <<repoFrame, agg>>

\* Variant: after a conflict the caller handles the command again on the
\* aggregate as it had loaded it, without loading it anew.
RetryFromCache(p) ==
    /\ svc[p].at = "returned"
    /\ svc[p].result.kind = "VersionConflictError"
    /\ svc[p].tries < MaxRetries
    /\ svc' = [svc EXCEPT ![p].at = "loaded", ![p].op = "Load", ![p].result = Nil,
                          ![p].raised = <<>>, ![p].flushed = <<>>, ![p].appends = 0,
                          ![p].tries = @ + 1]
    /\ agg' = [agg EXCEPT ![AggOf[p]] = RestoreAll(ZeroAccount, svc[p].seen)]
    /\ UNCHANGED <<repoFrame, pc, call, ret, pgErr>>

\* The caller of AccountService.Handle starts over after a version conflict:
\* it will call Handle again, which loads the aggregate anew.
Retry(p) ==
    /\ svc[p].at = "returned"
    /\ svc[p].result.kind = "VersionConflictError"
    /\ svc[p].tries < MaxRetries
    /\ svc' = [svc EXCEPT ![p] = [NoSvc EXCEPT !.tries = svc[p].tries + 1]]
    /\ agg' = [agg EXCEPT ![AggOf[p]] = ZeroAccount]
    /\ UNCHANGED <<repoFrame, pc, call, ret, pgErr>>

\* Nothing outside the store is in use.
LibIdle ==
    /\ impl = "Base"
    /\ agg = [a \in Aggs |-> ZeroAccount]
    /\ hist = [a \in Aggs |-> NoHist]
    /\ input = <<>>
    /\ todo = [a \in Aggs |-> <<>>]
    /\ merge = MergeIdle
    /\ svc = [p \in Procs |-> NoSvc]

(***************************************************************************)
(* Specifications                                                          *)
(***************************************************************************)
\* A freshly constructed store: mem.New() or pgx.NewEventStore() on empty tables.
EmptyStore ==
    /\ streams = [s \in StreamIDs |-> <<>>]
    /\ snapshots = [s \in StreamIDs |-> NoSnapshot]
    /\ mu = [writer |-> None, readers |-> {}]
    /\ events = {}
    /\ snapshotRows = [s \in StreamIDs |-> NoSnapshot]
    /\ txRows = [p \in Procs |-> {}]
    /\ pc = [p \in Procs |-> "idle"]
    /\ call = [p \in Procs |-> NoCall]
    /\ seq = [p \in Procs |-> <<>>]
    /\ currentVersion = [p \in Procs |-> 0]
    /\ ret = [p \in Procs |-> NoRet]
    /\ appended = [s \in StreamIDs |-> <<>>]
    /\ base = [s \in StreamIDs |-> 0]
    /\ pgErr = [p \in Procs |-> NoErr]
    /\ saved = [s \in StreamIDs |-> NoSnapshot]

Init ==
    /\ backend \in {"mem", "pgx"}
    /\ extractor = NoExtractor
    /\ EmptyStore
    /\ LibIdle

\* One step of goroutine p: the first statement of a call on a stream of S,
\* or the next statement of its current call.
Step(p, S) ==
    \/ MemLock(p, S)
    \/ MemRLock(p, S)
    \/ MemAppendCheck(p)
    \/ MemAppendStore(p)
    \/ MemLoad(p)
    \/ MemSaveSnapshot(p)
    \/ MemLoadSnapshot(p)
    \/ PgxBegin(p, S)
    \/ PgxReadVersion(p)
    \/ PgxInsert(p)
    \/ PgxCommit(p)
    \/ PgxLoad(p, S)
    \/ PgxSaveSnapshot(p, S)
    \/ PgxLoadSnapshot(p, S)

NobodyDone == \A q \in Procs : pc[q] # "done"

\* Two goroutines calling the store on one stream, in any interleaving.
Next ==
    \/ \E p \in Procs : Reset(p)
    \/ NobodyDone /\ \E p \in Procs : Step(p, {"s1"})

Spec == Init /\ [][Next]_vars

\* One goroutine calling the store: a sequential history of calls.
NextSeq ==
    \/ Reset("p1")
    \/ Step("p1", {"s1"})

SpecSeq == Init /\ [][NextSeq]_vars

\* One goroutine calling the store on two streams.  To keep the store small
\* every Append is of the single event Opened and every Load is from version 0;
\* the snapshot calls are not restricted.
NextSnap ==
    \/ Reset("p1")
    \/ /\ Step("p1", StreamIDs)
       /\ call'["p1"].op = "Append" => call'["p1"].events = <<Opened>>
       /\ call'["p1"].op = "Load" => call'["p1"].fromVersion = 0

SpecSnap == Init /\ [][NextSnap]_vars

\* One goroutine appending to and loading from a store that was built with a
\* metadata extractor.
InitMd ==
    /\ backend \in {"mem", "pgx"}
    /\ extractor \in Extractors
    /\ EmptyStore
    /\ LibIdle

NextMd ==
    \/ Reset("p1")
    \/ /\ Step("p1", {"s1"})
       /\ call'["p1"].op \in {"Append", "Load"}

SpecMd == InitMd /\ [][NextMd]_vars

\* A store that already holds the events of history h in stream s, each
\* appended by an Append of its own.
Holding(s, h) ==
    /\ streams = [x \in StreamIDs |-> IF x = s THEN AppendEach(<<>>, 0, h, NilMd) ELSE <<>>]
    /\ events = {EventRow(s, i, h[i]) : i \in 1..Len(h)}
    /\ appended = [x \in StreamIDs |->
                      IF x = s THEN [i \in 1..Len(h) |->
                                       [expected |-> i - 1, events |-> <<h[i]>>, md |-> NilMd]]
                      ELSE <<>>]
    /\ base = [x \in StreamIDs |-> IF x = s THEN Len(h) ELSE 0]

\* The race: a store holding some history, on which each goroutine makes one
\* call and keeps its result.
InitRace ==
    /\ backend \in {"mem", "pgx"}
    /\ extractor = NoExtractor
    /\ \E h \in SeqsUpTo(DOMAIN Registry, MaxVersion - 1) :
          Holding("s1", [i \in 1..Len(h) |-> IF h[i] = "Opened" THEN Opened ELSE Added])
    /\ snapshots = [s \in StreamIDs |-> NoSnapshot]
    /\ mu = [writer |-> None, readers |-> {}]
    /\ snapshotRows = [s \in StreamIDs |-> NoSnapshot]
    /\ txRows = [p \in Procs |-> {}]
    /\ pc = [p \in Procs |-> "idle"]
    /\ call = [p \in Procs |-> NoCall]
    /\ seq = [p \in Procs |-> <<>>]
    /\ currentVersion = [p \in Procs |-> 0]
    /\ ret = [p \in Procs |-> NoRet]
    /\ pgErr = [p \in Procs |-> NoErr]
    /\ saved = [s \in StreamIDs |-> NoSnapshot]
    /\ LibIdle

NextRace == \E p \in Procs : Step(p, {"s1"})

SpecRace == InitRace /\ [][NextRace]_vars

\* The histories Account.Handle produces for account "1": it is opened, then
\* deposits follow.
AccountHistories ==
    {h \in SeqsUpTo({AccountOpened("1", "Taro", 10), MoneyDeposited(5)}, MaxVersion) :
        \A i \in 1..Len(h) : (h[i].type = "AccountOpened") <=> (i = 1)}

\* The store holds for stream s a snapshot taken of account r at r's version.
HoldingSnapshot(s, r) ==
    LET snap == [found |-> TRUE, version |-> Version(r), state |-> serializeState(r)]
    IN  /\ snapshots = [x \in StreamIDs |-> IF x = s THEN snap ELSE NoSnapshot]
        /\ snapshotRows = [x \in StreamIDs |->
                              IF x = s THEN [snap EXCEPT !.state = JSONMarshal(@)]
                              ELSE NoSnapshot]
        /\ saved = [x \in StreamIDs |->
                       IF x = s THEN [found |-> TRUE, version |-> snap.version,
                                      state |-> snap.state, lowered |-> FALSE]
                       ELSE NoSnapshot]

HoldingNoSnapshot ==
    /\ snapshots = [s \in StreamIDs |-> NoSnapshot]
    /\ snapshotRows = [s \in StreamIDs |-> NoSnapshot]
    /\ saved = [s \in StreamIDs |-> NoSnapshot]

\* No goroutine is in a call, of the store or of the repository.
Quiet ==
    /\ mu = [writer |-> None, readers |-> {}]
    /\ txRows = [p \in Procs |-> {}]
    /\ pc = [p \in Procs |-> "idle"]
    /\ call = [p \in Procs |-> NoCall]
    /\ seq = [p \in Procs |-> <<>>]
    /\ currentVersion = [p \in Procs |-> 0]
    /\ ret = [p \in Procs |-> NoRet]
    /\ pgErr = [p \in Procs |-> NoErr]
    /\ impl = "Account"
    /\ agg = [a \in Aggs |-> ZeroAccount]
    /\ hist = [a \in Aggs |-> NoHist]
    /\ todo = [a \in Aggs |-> <<>>]
    /\ merge = MergeIdle
    /\ svc = [p \in Procs |-> NoSvc]

\* Repository.Load of account "1" by one goroutine, on a store that holds the
\* first n events of a history g of the account and either no snapshot or the
\* snapshot taken after the first v events of g.  `input` keeps g.
InitLoad ==
    /\ backend \in {"mem", "pgx"}
    /\ extractor = NoExtractor
    /\ Quiet
    /\ \E g \in AccountHistories :
          /\ \E n \in 0..Len(g) : Holding("s1", SubSeq(g, 1, n))
          /\ \/ HoldingNoSnapshot
             \/ \E v \in 0..Len(g) :
                   HoldingSnapshot("s1", RestoreAll(ZeroAccount, SubSeq(g, 1, v)))
          /\ input = g

NextLoad ==
    \/ RepoLoad("p1", "1")
    \/ RepoLoadSnapshot("p1")
    \/ RepoSeed("p1")
    \/ RepoLoadEvents("p1")
    \/ RepoRestore("p1")
    \/ LoadSteps("p1")

SpecLoad == InitLoad /\ [][NextLoad]_vars

\* Two goroutines work on account "1", whose stream holds nothing or the
\* opening event.  Each loads the account once, handles up to MaxBatch
\* commands on it and saves it once, as a caller of the repository may.
InitRepo ==
    /\ backend \in {"mem", "pgx"}
    /\ extractor = NoExtractor
    /\ Quiet
    /\ \E h \in {g \in AccountHistories : Len(g) <= 1} : Holding("s1", h)
    /\ HoldingNoSnapshot
    /\ input = <<>>

NextRepo ==
    \E p \in Procs :
        \/ RepoLoad(p, "1")
        \/ RepoLoadSnapshot(p)
        \/ RepoSeed(p)
        \/ RepoLoadEvents(p)
        \/ RepoRestore(p)
        \/ \E cmd \in Commands : Len(svc[p].raised) < MaxBatch /\ AccHandle(p, cmd)
        \/ RepoSave(p)
        \/ RepoAppend(p)
        \/ RepoSaved(p)
        \/ LoadSteps(p)
        \/ AppendSteps(p)

SpecRepo == InitRepo /\ [][NextRepo]_vars

\* The writers of account "1", opened before: each deposits an amount of its
\* own by AccountService.Handle (Load, Handle, Save), and calls it again
\* after every VersionConflictError until Save succeeds.
Amounts == [p \in Procs |-> IF p = "p1" THEN 5 ELSE 7]

InitWriters ==
    /\ backend \in {"mem", "pgx"}
    /\ extractor = NoExtractor
    /\ Quiet
    /\ Holding("s1", <<AccountOpened("1", "Taro", 10)>>)
    /\ HoldingNoSnapshot
    /\ input = <<>>

\* The database answers: no statement of p fails on the connection or the
\* context in this step (an INSERT that waits for a key stays waiting).
Reliable(p) == ret'[p].kind # "error"

\* AccountService.Handle(ctx, DepositCommand{...}, md) by writer p.
Writer(p) ==
    \/ RepoLoad(p, "1")
    \/ RepoLoadSnapshot(p) /\ Reliable(p)
    \/ RepoSeed(p)
    \/ RepoLoadEvents(p) /\ Reliable(p)
    \/ RepoRestore(p)
    \/ svc[p].raised = <<>> /\ AccHandle(p, DepositCommand("1", Amounts[p]))
    \/ svc[p].raised # <<>> /\ RepoSave(p)
    \/ RepoAppend(p) /\ Reliable(p)
    \/ RepoSaved(p)
    \/ LoadSteps(p)
    \/ MemAppendCheck(p)
    \/ MemAppendStore(p)
    \/ PgxReadVersion(p) /\ Reliable(p)
    \/ PgxInsert(p) /\ Reliable(p)
    \/ PgxCommit(p) /\ Reliable(p)
    \/ Retry(p)

NextWriters == \E p \in Procs : Writer(p)

\* Every writer's goroutine keeps being scheduled.
SpecWriters ==
    /\ InitWriters
    /\ [][NextWriters]_vars
    /\ \A p \in Procs : WF_vars(Writer(p))

\* One aggregate instance (of either implementation) driven by its methods.
InitAgg ==
    /\ backend = "mem"
    /\ extractor = NoExtractor
    /\ EmptyStore
    /\ impl \in {"Base", "Account"}
    /\ agg = [a \in Aggs |-> ZeroAccount]
    /\ hist = [a \in Aggs |-> NoHist]
    /\ input = <<>>
    /\ todo = [a \in Aggs |-> <<>>]
    /\ merge = MergeIdle
    /\ svc = [p \in Procs |-> NoSvc]

NextAgg ==
    \/ AggInit("a1")
    \/ AggSetVersion("a1")
    \/ AggApply("a1")
    \/ AggRaise("a1")
    \/ AggFlush("a1")

SpecAgg == InitAgg /\ [][NextAgg]_vars

\* Two freshly constructed instances, built the same way, each restoring the
\* same event sequence.
InitReplay ==
    /\ backend = "mem"
    /\ extractor = NoExtractor
    /\ EmptyStore
    /\ impl \in {"Base", "Account"}
    /\ \E r \in {ZeroAccount, BaseInit(ZeroAccount, <<"Account:", "1">>)} :
          /\ impl = "Account" => r = ZeroAccount
          /\ agg = [a \in Aggs |-> r]
    /\ hist = [a \in Aggs |-> NoHist]
    /\ input \in SeqsUpTo(AcctEvents, MaxReplay)
    /\ todo = [a \in Aggs |-> input]
    /\ merge = MergeIdle
    /\ svc = [p \in Procs |-> NoSvc]

NextReplay == \E a \in Aggs : Restore(a)

SpecReplay == InitReplay /\ [][NextReplay]_vars

\* Calls of Metadata.Merge on every receiver and argument list.
InitMerge ==
    /\ backend = "mem"
    /\ extractor = NoExtractor
    /\ EmptyStore
    /\ impl = "Base"
    /\ agg = [a \in Aggs |-> ZeroAccount]
    /\ hist = [a \in Aggs |-> NoHist]
    /\ input = <<>>
    /\ todo = [a \in Aggs |-> <<>>]
    /\ \E m \in MdMaps \cup {NilMd}, ms \in SeqsUpTo(MdMaps \cup {NilMd}, MaxMerge) :
          merge = [m |-> m, ms |-> ms, out |-> NilMd, done |-> FALSE]
    /\ svc = [p \in Procs |-> NoSvc]

NextMerge == MergeCall

SpecMerge == InitMerge /\ [][NextMerge]_vars

(***************************************************************************)
(* What an observer of the store sees.                                     *)
(***************************************************************************)
\* The committed rows of stream s.
RowsOf(s) == {r \in events : r.stream_id = s}

\* The stream's current persisted version: len(seq) in mem, MAX(version) in pgx.
CurrentVersion(s) ==
    IF backend = "mem" THEN Len(streams[s]) ELSE SelectMaxVersion(events, s)

\* The events of the batches successfully appended to s, in append order.
RECURSIVE Flatten(_)
Flatten(batches) ==
    IF batches = <<>> THEN <<>> ELSE Head(batches).events \o Flatten(Tail(batches))

AppendedEvents(s) == Flatten(appended[s])

\* The versions at which a successfully appended batch of s ends (and 0).
RECURSIVE BatchEnds(_)
BatchEnds(batches) ==
    IF batches = <<>> THEN {0}
    ELSE LET front == SubSeq(batches, 1, Len(batches) - 1)
         IN  BatchEnds(front) \cup {Len(Flatten(batches))}

\* The store holds, for stream s, exactly the events evs at versions 1..Len(evs).
Stores(s, evs) ==
    IF backend = "mem"
    THEN streams[s] = [i \in 1..Len(evs) |->
                          storedEvent(i, evs[i], NilMd)]
    ELSE RowsOf(s) = {EventRow(s, i, evs[i]) : i \in 1..Len(evs)}

\* Goroutine p has returned from a call of operation op.
Returned(p, op) == pc[p] = "done" /\ call[p].op = op

\* No statement of p's call failed for a reason of the connection or context.
NoTransportFailure(p) == pgErr[p] \notin {QueryCanceled, ConnErr}

(***************************************************************************)
(* C1.  Two Append calls racing on one stream with the same expectedVersion *)
(* (the stream's version when they start) and non-empty batches: never do   *)
(* both succeed, the stream gains the events of at most one of them, and    *)
(* when both return an outcome of the version check (success or             *)
(* VersionConflictError) exactly one succeeds and the other conflicts.      *)
(* Both backends; checked under SpecRace, where each goroutine makes one    *)
(* call on a store holding any history.                                     *)
(***************************************************************************)
RacingAppends(p, q) ==
    /\ p # q
    /\ Returned(p, "Append") /\ Returned(q, "Append")
    /\ call[p].streamID = call[q].streamID
    /\ call[p].expectedVersion = call[q].expectedVersion
    /\ call[p].events # <<>> /\ call[q].events # <<>>

C1_ExactlyOneAppendWins ==
    \A p, q \in Procs :
        RacingAppends(p, q) =>
            LET s == call[p].streamID
                kinds == {ret[p].kind, ret[q].kind}
                winners == {w \in {p, q} : ret[w].kind = "ok"}
            IN  /\ Cardinality(winners) <= 1
                /\ Len(appended[s]) = base[s] + Cardinality(winners)
                /\ Stores(s, AppendedEvents(s))
                /\ \A w \in winners :
                      appended[s][Len(appended[s])] = Batch(call[w])
                /\ (call[p].expectedVersion = base[s]
                        /\ kinds \subseteq {"ok", "VersionConflictError"})
                      => kinds = {"ok", "VersionConflictError"}

\* The statement without the condition that expectedVersion is the stream's
\* version: whenever both calls return an outcome of the version check, one
\* succeeds and the other conflicts.
C1_AnySameExpectedVersion ==
    \A p, q \in Procs :
        (RacingAppends(p, q)
            /\ {ret[p].kind, ret[q].kind} \subseteq {"ok", "VersionConflictError"})
          => {ret[p].kind, ret[q].kind} = {"ok", "VersionConflictError"}

\* Both calls were inside the transaction at once: the loser had read the
\* version before the winner committed and lost on the primary key.
C1_Witness ==
    \E p, q \in Procs :
        /\ RacingAppends(p, q)
        /\ call[p].expectedVersion = base[call[p].streamID]
        /\ ret[p].kind = "ok"
        /\ ret[q].kind = "VersionConflictError"
        /\ pgErr[q] = UniqueViolation

(***************************************************************************)
(* C2.  In every reachable state the versions of the events stored in a    *)
(* stream are exactly 1, 2, ..., n, without gap or duplicate, n being the  *)
(* stream's current version.                                               *)
(***************************************************************************)
C2_GaplessVersions ==
    \A s \in StreamIDs :
        LET n == CurrentVersion(s)
        IN  IF backend = "mem"
            THEN \A i \in 1..Len(streams[s]) : streams[s][i].version = i
            ELSE /\ {r.version : r \in RowsOf(s)} = 1..n
                 /\ Cardinality(RowsOf(s)) = n

\* A stream grown to MaxVersion by two appends, the second of which another
\* goroutine lost.
C2_Witness ==
    \E s \in StreamIDs, p \in Procs :
        /\ CurrentVersion(s) = MaxVersion
        /\ Len(appended[s]) = 2
        /\ Returned(p, "Append")
        /\ ret[p].kind = "VersionConflictError"

(***************************************************************************)
(* C3.  An Append that returns an error leaves nothing behind: each        *)
(* stream holds exactly the events of the batches whose Append returned    *)
(* success, and a goroutine outside a call holds no uncommitted row.       *)
(***************************************************************************)
C3_FailedAppendStoresNothing ==
    /\ \A s \in StreamIDs : Stores(s, AppendedEvents(s))
    /\ \A p \in Procs : pc[p] \in {"idle", "done"} => txRows[p] = {}

\* An Append failed at the second event of its batch, after the first was
\* inserted.
C3_Witness ==
    \E p \in Procs :
        /\ Returned(p, "Append")
        /\ ret[p].kind = "error"
        /\ Len(call[p].events) = 2
        /\ EventType(call[p].events[1]) \in DOMAIN Registry
        /\ EventType(call[p].events[2]) \notin DOMAIN Registry
        /\ ret[p].msg = "ges-pgx: no codec registered for event type"

(***************************************************************************)
(* C4.  A Load never observes part of a batch that an Append is writing or *)
(* has written: the events it returns are the events above fromVersion of  *)
(* a sequence of whole batches, so of every batch it holds none or all of  *)
(* the events above fromVersion.                                           *)
(***************************************************************************)
\* The events of evs at versions above fromVersion and up to top.
Above(evs, fromVersion, top) ==
    LET lo == IF fromVersion < 0 THEN 0 ELSE fromVersion
    IN  IF lo >= top THEN <<>> ELSE SubSeq(evs, lo + 1, top)

C4_LoadSeesWholeBatches ==
    \A p \in Procs :
        (Returned(p, "Load") /\ ret[p].kind = "loaded") =>
            \E top \in BatchEnds(appended[call[p].streamID]) :
                ret[p].events =
                    Above(AppendedEvents(call[p].streamID), call[p].fromVersion, top)

\* A Load returned while another goroutine had inserted one event of a batch
\* of two and not committed yet.
C4_Witness ==
    \E p, q \in Procs :
        /\ Returned(p, "Load") /\ ret[p].kind = "loaded"
        /\ call[p].fromVersion = 0
        /\ pc[q] = "insert"
        /\ call[q].streamID = call[p].streamID
        /\ Len(call[q].events) = 2
        /\ Cardinality(txRows[q]) = 1

(***************************************************************************)
(* C5.  In a sequential history, an Append that succeeds returns the       *)
(* stream's new current version and leaves its batch at the end of the     *)
(* stream, and a Load(streamID, 0) returns all events successfully         *)
(* appended so far, in append order, with lastVersion that same version.   *)
(* So Load(streamID, 0) right after a successful Append ends with the      *)
(* batch just appended and reports the version Append returned.            *)
(***************************************************************************)
C5_AppendThenLoadAll ==
    \A p \in Procs :
        /\ (Returned(p, "Append") /\ ret[p].kind = "ok") =>
              LET s == call[p].streamID
                  all == AppendedEvents(s)
                  k == Len(call[p].events)
              IN  /\ ret[p].version = Len(all)
                  /\ ret[p].version = CurrentVersion(s)
                  /\ SubSeq(all, Len(all) - k + 1, Len(all)) = call[p].events
        /\ (Returned(p, "Load") /\ ret[p].kind = "loaded" /\ call[p].fromVersion = 0) =>
              LET all == AppendedEvents(call[p].streamID)
              IN  /\ ret[p].events = all
                  /\ ret[p].last = Len(all)

\* Load(s, 0) returns the two events of two successive appends, in order.
C5_Witness ==
    \E p \in Procs :
        /\ Returned(p, "Load") /\ call[p].fromVersion = 0
        /\ ret[p] = Loaded(<<Opened, Added>>, 2)
        /\ Len(appended[call[p].streamID]) = 2

(***************************************************************************)
(* C6.  In a sequential history, an Append with a non-empty batch whose    *)
(* expectedVersion was already used by an earlier successful Append on the *)
(* stream fails with a VersionConflictError carrying that stale expected   *)
(* version and the stream's current version.                               *)
(***************************************************************************)
\* The successful appends on s that were made with expectedVersion v.
WonWith(s, v) == {i \in 1..Len(appended[s]) : appended[s][i].expected = v}

C6_SecondAppendConflicts ==
    \A p \in Procs :
        (Returned(p, "Append") /\ call[p].events # <<>> /\ NoTransportFailure(p)) =>
            LET s == call[p].streamID
                v == call[p].expectedVersion
            IN  IF ret[p].kind = "ok"
                THEN Cardinality(WonWith(s, v)) = 1
                ELSE WonWith(s, v) # {} =>
                        /\ ret[p].kind = "VersionConflictError"
                        /\ ret[p].StreamID = s
                        /\ ret[p].ExpectedVersion = v
                        /\ ret[p].ActualVersion = CurrentVersion(s)
                        /\ ret[p].ActualVersion = Len(AppendedEvents(s))

\* The second of two appends with expectedVersion 0 has failed.
C6_Witness ==
    \E p \in Procs :
        /\ Returned(p, "Append") /\ call[p].events # <<>>
        /\ call[p].expectedVersion = 0
        /\ WonWith(call[p].streamID, 0) # {}
        /\ ret[p].kind = "VersionConflictError"
        /\ ret[p].ActualVersion = 2

(***************************************************************************)
(* C7.  Every VersionConflictError that Append returns, under any          *)
(* interleaving of writers, carries the stream id and expectedVersion of   *)
(* the call and, as ActualVersion, the stream's current persisted version  *)
(* at the moment the conflict was detected (the step that returns it).     *)
(***************************************************************************)
C7_ConflictCarriesTrueVersion ==
    \A p \in Procs :
        (Returned(p, "Append") /\ ret[p].kind = "VersionConflictError") =>
            /\ ret[p].StreamID = call[p].streamID
            /\ ret[p].ExpectedVersion = call[p].expectedVersion
            /\ ret[p].ActualVersion = CurrentVersion(call[p].streamID)

(***************************************************************************)
(* C8.  pgx backend: an Append whose version read matched expectedVersion  *)
(* and whose INSERT was rejected for a duplicate (stream_id, version) key  *)
(* returns a VersionConflictError for its stream and expectedVersion,      *)
(* never a generic error.                                                  *)
(***************************************************************************)
C8_DuplicateKeyIsVersionConflict ==
    \A p \in Procs :
        (backend = "pgx" /\ Returned(p, "Append") /\ pgErr[p] = UniqueViolation) =>
            /\ ret[p].kind = "VersionConflictError"
            /\ ret[p].StreamID = call[p].streamID
            /\ ret[p].ExpectedVersion = call[p].expectedVersion

\* A writer whose read matched lost the key of its first event to a writer
\* that committed in between.
C8_Witness ==
    \E p \in Procs :
        /\ backend = "pgx"
        /\ Returned(p, "Append")
        /\ pgErr[p] = UniqueViolation
        /\ call[p].expectedVersion = 1
        /\ CurrentVersion(call[p].streamID) = 2
        /\ ret[p].kind = "VersionConflictError"

(***************************************************************************)
(* C9.  An Append with an empty batch (that no connection failure cut      *)
(* short) succeeds iff expectedVersion equals the stream's current         *)
(* version; on success it returns expectedVersion, on mismatch a           *)
(* VersionConflictError; no step of such a call changes the stored events. *)
(***************************************************************************)
C9_EmptyBatchOutcome ==
    \A p \in Procs :
        (Returned(p, "Append") /\ call[p].events = <<>> /\ NoTransportFailure(p)) =>
            LET s == call[p].streamID
                v == call[p].expectedVersion
            IN  /\ ret[p].kind \in {"ok", "VersionConflictError"}
                /\ ret[p].kind = "ok" <=> v = CurrentVersion(s)
                /\ ret[p].kind = "ok" => ret[p].version = v
                /\ ret[p].kind = "VersionConflictError" =>
                      /\ ret[p].ExpectedVersion = v
                      /\ ret[p].ActualVersion = CurrentVersion(s)

C9_EmptyBatchStoresNothing ==
    (\E p \in Procs : /\ pc[p] \notin {"idle", "done"}
                       /\ call[p].op = "Append"
                       /\ call[p].events = <<>>)
        => UNCHANGED <<streams, events>>

C9_EmptyAppend == []C9_EmptyBatchOutcome /\ [][C9_EmptyBatchStoresNothing]_vars

\* An empty-batch Append on a stream holding one event succeeded with
\* expectedVersion 1.
C9_Witness ==
    \E p \in Procs :
        /\ Returned(p, "Append") /\ call[p].events = <<>>
        /\ call[p].expectedVersion = 1
        /\ ret[p] = Ok(1)
        /\ CurrentVersion(call[p].streamID) = 1

(***************************************************************************)
(* C10.  Load(streamID, fromVersion), for every fromVersion (negative and  *)
(* above the current version included), returns exactly the stored events  *)
(* of version greater than fromVersion, in ascending version order without *)
(* gap; when it returns at least one event, lastVersion is the version of  *)
(* the last event returned.                                                *)
(***************************************************************************)
C10_LoadReturnsEventsAbove ==
    \A p \in Procs :
        (Returned(p, "Load") /\ ret[p].kind = "loaded") =>
            LET s == call[p].streamID
                all == AppendedEvents(s)
            IN  /\ Stores(s, all)
                /\ ret[p].events = Above(all, call[p].fromVersion, Len(all))
                /\ Len(ret[p].events) >= 1 => ret[p].last = Len(all)

\* Load from version 1 of a stream of two events returned the second only.
C10_Witness ==
    \E p \in Procs :
        /\ Returned(p, "Load")
        /\ call[p].fromVersion = 1
        /\ ret[p].kind = "loaded"
        /\ ret[p].events = <<Added>>
        /\ ret[p].last = 2
        /\ CurrentVersion(call[p].streamID) = 2

(***************************************************************************)
(* C11.  A successful Append of a batch of k events with expected version  *)
(* v returns v+k and the store holds the batch's events, in the order      *)
(* given, at versions v+1 .. v+k; for k >= 1 the stream's current version  *)
(* is then v+k.                                                            *)
(***************************************************************************)
\* The store holds event e at version i of stream s.
HoldsAt(s, i, e) ==
    IF backend = "mem"
    THEN /\ i \in 1..Len(streams[s])
         /\ streams[s][i] = storedEvent(i, e, NilMd)
    ELSE /\ EventRow(s, i, e) \in events
         /\ Cardinality({r \in RowsOf(s) : r.version = i}) = 1

IsPrefix(a, b) == Len(a) <= Len(b) /\ SubSeq(b, 1, Len(a)) = a

\* What Load(s, 0) returns from a store holding st (mem) or rows ev (pgx).
LoadAll(st, ev, s) ==
    IF backend = "mem" THEN MemLoadResult(st[s], 0).events
    ELSE PgxLoadResult(ev, s, 0).events

C12_StepKeepsEvents ==
    \A s \in StreamIDs :
        /\ IsPrefix(streams[s], streams'[s])
        /\ events \subseteq events'
        /\ IsPrefix(LoadAll(streams, events, s), LoadAll(streams', events', s))

C12_EventsImmutable == [][C12_StepKeepsEvents]_vars

\* A stream that grew by two appends, seen after a later call that failed.
C12_Witness ==
    \E p \in Procs :
        /\ Returned(p, "Append")
        /\ ret[p].kind \in {"error", "VersionConflictError"}
        /\ Len(appended[call[p].streamID]) = 2
        /\ LoadAll(streams, events, call[p].streamID) = <<Opened, Added>>

(***************************************************************************)
(* C13.  LoadSnapshot (when no connection failure cuts it short) returns   *)
(* Found=false, version 0, no state and no error for a stream on which no  *)
(* SaveSnapshot has succeeded, whatever events that stream holds and       *)
(* whatever snapshots other streams have; it returns Found=true only for a *)
(* stream on which a SaveSnapshot has succeeded.                           *)
(***************************************************************************)
C13_NoSnapshotNotFound ==
    \A p \in Procs :
        (Returned(p, "LoadSnapshot") /\ NoTransportFailure(p)) =>
            /\ ret[p].kind = "snapshot"
            /\ ret[p].Found <=> saved[call[p].streamID].found
            /\ ~saved[call[p].streamID].found =>
                  ret[p] = [kind |-> "snapshot", Found |-> FALSE, Version |-> 0,
                            State |-> "none"]

\* Not found on a stream holding events, while another stream has a snapshot.
C13_Witness ==
    \E p \in Procs, s \in StreamIDs :
        /\ Returned(p, "LoadSnapshot")
        /\ ret[p].kind = "snapshot" /\ ~ret[p].Found
        /\ CurrentVersion(call[p].streamID) = MaxVersion
        /\ s # call[p].streamID
        /\ saved[s].found

StoredSnapshot(s) == IF backend = "mem" THEN snapshots[s] ELSE snapshotRows[s]

C15_SnapshotNotAhead ==
    \A s \in StreamIDs :
        StoredSnapshot(s).found => StoredSnapshot(s).version <= CurrentVersion(s)

(***************************************************************************)
(* C16.  On every backend, an Append of a batch holding an event whose     *)
(* type has no registered codec, when it gets past the version check and   *)
(* no connection failure cuts it short, fails with the missing-codec error *)
(* (and stores nothing); a Load of a stream holding an event of an         *)
(* unregistered type fails with a missing-codec error.                     *)
(***************************************************************************)
HasUnregistered(evs) == \E i \in 1..Len(evs) : EventType(evs[i]) \notin DOMAIN Registry

C16_MissingCodecFails ==
    \A p \in Procs :
        /\ (Returned(p, "Append") /\ HasUnregistered(call[p].events)
               /\ NoTransportFailure(p) /\ ret[p].kind # "VersionConflictError") =>
              /\ ret[p].kind = "error"
              /\ ret[p].msg = "ges-pgx: no codec registered for event type"
        /\ (Returned(p, "Load") /\ NoTransportFailure(p)
               /\ HasUnregistered(LoadAll(streams, events, call[p].streamID))) =>
              ret[p].kind = "error"

(***************************************************************************)
(* C17.  Every Flush, from any state reached by Apply, Raise and Flush     *)
(* calls, returns the events raised since the previous Flush in the order  *)
(* they were raised, with expectedVersion = Version() minus the number of  *)
(* events returned; it leaves the pending buffer empty and Version()       *)
(* unchanged.  A Flush that directly follows a Flush returns no events and *)
(* expectedVersion = Version().                                            *)
(***************************************************************************)
\* The step is a call of Flush on instance a.
FlushStep(a) == hist'[a].last = "Flush" /\ <<agg[a], hist[a]>> # <<agg'[a], hist'[a]>>

C17_FlushStepReturnsRaised ==
    \A a \in Aggs :
        FlushStep(a) =>
            /\ hist'[a].events = hist[a].raised
            /\ hist'[a].expectedVersion = Version(agg'[a]) - Len(hist'[a].events)
            /\ agg'[a].pending = <<>>
            /\ Version(agg'[a]) = Version(agg[a])
            /\ [agg'[a] EXCEPT !.pending = agg[a].pending] = agg[a]
            /\ hist[a].last = "Flush" =>
                  /\ hist'[a].events = <<>>
                  /\ hist'[a].expectedVersion = Version(agg'[a])

C17_FlushReturnsPending == [][C17_FlushStepReturnsRaised]_vars

\* A Flush that returned two raised events of a seeded instance on which an
\* event was applied as well.
C17_Witness ==
    /\ hist["a1"].last = "Flush"
    /\ hist["a1"].seed = 1
    /\ hist["a1"].calls = 3
    /\ Len(hist["a1"].events) = 2
    /\ hist["a1"].events[1] # hist["a1"].events[2]
    /\ hist["a1"].expectedVersion = 2

(***************************************************************************)
(* C18.  Apply(e) runs the state-mutation code once (not at all when a     *)
(* Base has no applier), then increases the version by exactly 1, and      *)
(* leaves the pending buffer unchanged.  Raise(e) has the effect of        *)
(* Apply(e) and appends e at the end of the pending buffer.  So Version()  *)
(* is always the seeded version plus the number of Apply and Raise calls   *)
(* made since, flushed or not.                                             *)
(***************************************************************************)
\* The step is a call of Apply or Raise (op) on instance a.
CallStep(a, op) == hist'[a].last = op /\ hist'[a].calls = hist[a].calls + 1

\* How often one Apply runs the state-mutation code of instance r.
MutationRuns(r) == IF impl = "Base" /\ r.applier = "nil" THEN 0 ELSE 1

C18_StepApplyRaise ==
    \A a \in Aggs :
        /\ CallStep(a, "Apply") =>
              /\ agg'[a].mutations = agg[a].mutations + MutationRuns(agg[a])
              /\ Version(agg'[a]) = Version(agg[a]) + 1
              /\ agg'[a].pending = agg[a].pending
              /\ MutationRuns(agg[a]) = 0 =>
                    agg'[a] = [agg[a] EXCEPT !.version = @ + 1]
        /\ CallStep(a, "Raise") =>
              /\ [agg'[a] EXCEPT !.pending = agg[a].pending] = ApplyOf(agg[a], hist'[a].arg)
              /\ agg'[a].pending = Append(agg[a].pending, hist'[a].arg)
              /\ Version(agg'[a]) = Version(agg[a]) + 1
        /\ Version(agg'[a]) = hist'[a].seed + hist'[a].calls

C18_ApplyRaiseVersion ==
    /\ [](\A a \in Aggs : Version(agg[a]) = hist[a].seed + hist[a].calls)
    /\ [][C18_StepApplyRaise]_vars

\* A seeded instance after three calls, two of them Raise calls whose events
\* are still pending, one flushed before.
C18_Witness ==
    /\ hist["a1"].last = "Raise"
    /\ hist["a1"].seed = 1
    /\ Version(agg["a1"]) = 4
    /\ Len(agg["a1"].pending) = 2
    /\ Len(hist["a1"].events) = 1

(***************************************************************************)
(* C19.  Replay is deterministic: two freshly constructed aggregates that  *)
(* have each restored the same event sequence have the same owner,         *)
(* balance, opened flag and stream id, both have the length of the         *)
(* sequence as version, and neither has pending events.                    *)
(***************************************************************************)
\* Every instance has applied the whole input.
Replayed == \A a \in Aggs : todo[a] = <<>>

MergeInputs(mg) == <<mg.m>> \o mg.ms

\* The positions of the inputs whose map has key k.
Having(mg, k) == {i \in 1..Len(MergeInputs(mg)) : k \in DOMAIN MergeInputs(mg)[i].kv}

\* The greatest element of a non-empty set of numbers.
Last(S) == CHOOSE i \in S : \A j \in S : j <= i

C20_MergeResult ==
    merge.done =>
        /\ ~merge.out.nil
        /\ DOMAIN merge.out.kv = {k \in MdKeys : Having(merge, k) # {}}
        /\ \A k \in DOMAIN merge.out.kv :
              merge.out.kv[k] = MergeInputs(merge)[Last(Having(merge, k))].kv[k]

C20_MergeStep == merge'.m = merge.m /\ merge'.ms = merge.ms

C20_MergeRightBiasedPure == []C20_MergeResult /\ [][C20_MergeStep]_vars

\* The example of the claim, and a call on a nil receiver with two arguments
\* that disagree on a key.
C20_Example ==
    /\ merge.done
    /\ merge.m = Md([tenant |-> "t1", user |-> "u1"])
    /\ merge.ms = <<Md([user |-> "u2"])>>
    /\ merge.out = Md([tenant |-> "t1", user |-> "u2"])

C20_Witness ==
    /\ merge.done
    /\ merge.m = NilMd
    /\ merge.ms = <<Md([user |-> "u1"]), Md([tenant |-> "t1", user |-> "u2"])>>
    /\ merge.out = Md([tenant |-> "t1", user |-> "u2"])

(***************************************************************************)
(* C21.  On a store built with a metadata extractor, every event of a      *)
(* successfully appended batch is stored with the same metadata: a map     *)
(* whose keys are those of the extracted and of the explicit metadata,     *)
(* each mapped to the explicit value when the explicit metadata has the    *)
(* key and to the extracted value otherwise.                               *)
(***************************************************************************)
\* The metadata stored with the event at version v of stream s.
StoredMetadata(s, v) ==
    IF backend = "mem" THEN streams[s][v].metadata
    ELSE LET row == CHOOSE r \in RowsOf(s) : r.version = v
         IN  [nil |-> row.metadata.json = "null", kv |-> row.metadata.kv]

\* The explicit metadata laid over the extracted one.
ExplicitOverExtracted(extracted, explicit) ==
    [nil |-> FALSE,
     kv |-> [k \in DOMAIN extracted.kv \cup DOMAIN explicit.kv |->
                IF k \in DOMAIN explicit.kv THEN explicit.kv[k] ELSE extracted.kv[k]]]

C21_BatchSharesMergedMetadata ==
    extractor.set =>
        \A s \in StreamIDs : \A k \in 1..Len(appended[s]) :
            LET b == appended[s][k]
            IN  \A i \in 1..Len(b.events) :
                    /\ b.expected + i <= CurrentVersion(s)
                    /\ StoredMetadata(s, b.expected + i)
                          = ExplicitOverExtracted(extractor.md, b.md)

\* A batch of two events appended with {user:u2} to a store that extracts
\* {tenant:t1, user:u1}: both are stored with {tenant:t1, user:u2}.
C21_Witness ==
    /\ extractor.set
    /\ extractor.md = Md([tenant |-> "t1", user |-> "u1"])
    /\ Len(appended["s1"]) = 1
    /\ appended["s1"][1].md = Md([user |-> "u2"])
    /\ Len(appended["s1"][1].events) = 2
    /\ \A v \in 1..2 : StoredMetadata("s1", v) = Md([tenant |-> "t1", user |-> "u2"])

(***************************************************************************)
(* C23.  Each store operation changes only what it names.  In every step,  *)
(* the stored events of a stream (and so its current version) change only  *)
(* if the step belongs to an Append on that stream, and the snapshot of a  *)
(* stream changes only if the step belongs to a SaveSnapshot on that       *)
(* stream.  So a SaveSnapshot, successful or failed, leaves all events and *)
(* the other streams' snapshots alone, an Append leaves the other streams  *)
(* and every snapshot alone, and Load and LoadSnapshot change nothing.     *)
(***************************************************************************)
\* What the store holds for stream s in stores st (mem) and ev (pgx).
EventsOf(st, ev, s) == IF backend = "mem" THEN st[s] ELSE {r \in ev : r.stream_id = s}
SnapshotOf(sn, sr, s) == IF backend = "mem" THEN sn[s] ELSE sr[s]

\* Goroutine p takes this step inside a call of op on stream s.
StepOf(p, op, s) ==
    /\ <<pc[p], call[p], ret[p]>> # <<pc'[p], call'[p], ret'[p]>>
    /\ call'[p].op = op
    /\ call'[p].streamID = s

C23_StepChangesOnlyNamed ==
    \A s \in StreamIDs :
        /\ EventsOf(streams, events, s) # EventsOf(streams', events', s)
              => \E p \in Procs : StepOf(p, "Append", s)
        /\ SnapshotOf(snapshots, snapshotRows, s) # SnapshotOf(snapshots', snapshotRows', s)
              => \E p \in Procs : StepOf(p, "SaveSnapshot", s)

C23_OperationsChangeOnlyNamed == [][C23_StepChangesOnlyNamed]_vars

\* A failed SaveSnapshot on a stream that holds appended events, while the
\* other stream has events and a snapshot.
C23_Witness ==
    \E p \in Procs, s \in StreamIDs :
        /\ Returned(p, "SaveSnapshot")
        /\ ret[p].kind = "error"
        /\ s # call[p].streamID
        /\ CurrentVersion(call[p].streamID) = MaxVersion
        /\ CurrentVersion(s) > 0
        /\ saved[s].found
        /\ ~saved[call[p].streamID].found

(***************************************************************************)
(* C24.  Loading through a snapshot gives what a full replay gives.  When  *)
(* the stream holds n events and the snapshot was taken at v <= n of the   *)
(* state reached by replaying events 1..v, a Repository.Load that no       *)
(* failure of the database interrupts returns the aggregate that replaying *)
(* events 1..n onto a fresh Account gives, at version n.                   *)
(***************************************************************************)
\* Repository.Load by p has returned, and not with an error of the database.
LoadAnswered(p) ==
    /\ svc[p].op = "Load"
    /\ svc[p].at \in {"loaded", "returned"}
    /\ svc[p].result \in {Nil, Error("version mismatch after Restore")}

\* The snapshot of s was taken at a version v the stream has reached, of the
\* state the first v events of s give.
SnapshotOfPrefix(s) ==
    /\ saved[s].found
    /\ saved[s].version <= CurrentVersion(s)
    /\ saved[s].state
          = serializeState(RestoreAll(ZeroAccount,
                                      SubSeq(AppendedEvents(s), 1, saved[s].version)))

\* The domain state of an Account and its version.
DomainState(r) ==
    [id |-> r.id, owner |-> r.owner, balance |-> r.balance, opened |-> r.opened,
     version |-> Version(r)]

C24_SnapshotLoadEqualsReplay ==
    \A p \in Procs :
        (LoadAnswered(p) /\ SnapshotOfPrefix("s1")) =>
            /\ svc[p].aggregate
            /\ DomainState(agg[AggOf[p]])
                  = DomainState(RestoreAll(ZeroAccount, AppendedEvents("s1")))
            /\ Version(agg[AggOf[p]]) = CurrentVersion("s1")

(***************************************************************************)
(* C25.  Whenever the version of the aggregate, after it was seeded from   *)
(* the snapshot and the loaded events were applied, differs from the last  *)
(* version the store's Load reported, Repository.Load returns an error and *)
(* no aggregate, and the error is not a VersionConflictError.              *)
(***************************************************************************)
C25_VersionMismatchFailsLoad ==
    \A p \in Procs :
        (LoadAnswered(p) /\ svc[p].last # svc[p].restored) =>
            /\ svc[p].at = "returned"
            /\ ~svc[p].aggregate
            /\ agg[AggOf[p]] = ZeroAccount
            /\ svc[p].result.kind = "error"
            /\ svc[p].result.kind # "VersionConflictError"

\* The snapshot is at version 2 of a stream holding one event: the aggregate
\* is seeded at 2, the store reports 1, and Load returns the error.
C25_Witness ==
    /\ LoadAnswered("p1")
    /\ saved["s1"].found /\ saved["s1"].version = 2
    /\ CurrentVersion("s1") = 1
    /\ svc["p1"].restored = 2
    /\ svc["p1"].last = 1
    /\ svc["p1"].result = Error("version mismatch after Restore")
    /\ ~svc["p1"].aggregate

(***************************************************************************)
(* C26.  On both backends, when the stream holds n >= 1 events and a       *)
(* snapshot at a version v with 0 <= v <= n (v = n included, where the     *)
(* store's Load has no events to return), Repository.Load succeeds and the *)
(* aggregate it returns has Version() = n.                                 *)
(***************************************************************************)
C26_LoadSucceedsUpToDateSnapshot ==
    \A p \in Procs :
        LET n == CurrentVersion("s1")
        IN  (/\ LoadAnswered(p)
             /\ n >= 1
             /\ saved["s1"].found
             /\ saved["s1"].version \in 0..n)
            => (svc[p].result = Nil /\ svc[p].aggregate /\ Version(agg[AggOf[p]]) = n)

(***************************************************************************)
(* C27.  Repository.Save of an aggregate with no pending events returns    *)
(* success without calling Append and leaves the store as it is, also when *)
(* the aggregate is stale.  With k >= 1 pending events it calls Append     *)
(* exactly once, with the aggregate's stream id, expectedVersion =         *)
(* Version() - k and the pending events in the order they were raised.     *)
(***************************************************************************)
\* Goroutine p has returned from Repository.Save.
SaveReturned(p) == svc[p].op = "Save" /\ svc[p].at = "returned"

C27_SaveStep ==
    \A p \in Procs :
        /\ (svc[p].op # "Save" /\ svc'[p].op = "Save" /\ svc[p].raised = <<>>) =>
              /\ svc'[p].at = "returned"
              /\ svc'[p].result = Nil
              /\ UNCHANGED <<streams, events, txRows, snapshots, snapshotRows, pc, call>>
        /\ (call[p].op # "Append" /\ call'[p].op = "Append") =>
              /\ svc[p].op = "Save"
              /\ svc[p].appends = 0
              /\ svc[p].raised # <<>>
              /\ call'[p].streamID = StreamKey(<<"Account:", agg[AggOf[p]].id>>)
              /\ call'[p].expectedVersion = Version(agg[AggOf[p]]) - Len(svc[p].raised)
              /\ call'[p].events = svc[p].raised

C27_SaveAppendsOnce ==
    /\ [](\A p \in Procs :
            SaveReturned(p) => svc[p].appends = IF svc[p].raised = <<>> THEN 0 ELSE 1)
    /\ [][C27_SaveStep]_vars

\* p1 saved an aggregate with nothing pending after p2 had appended the two
\* events it raised: p1's Save returned nil and made no Append call.
C27_Witness ==
    /\ SaveReturned("p1") /\ svc["p1"].raised = <<>> /\ svc["p1"].result = Nil
    /\ svc["p1"].appends = 0
    /\ CurrentVersion("s1") > svc["p1"].loaded
    /\ SaveReturned("p2") /\ Len(svc["p2"].raised) = 2 /\ svc["p2"].result = Nil
    /\ svc["p2"].appends = 1
    /\ AppendedEvents("s1") = svc["p2"].raised

(***************************************************************************)
(* C28.  Repository.Save clears the aggregate's pending events when, and   *)
(* only when, the append succeeded: after a Save that returned an error    *)
(* the events raised before it are still pending on the aggregate, and     *)
(* after a Save that returned nil nothing is pending.                      *)
(***************************************************************************)
C28_PendingClearedIffSaved ==
    \A p \in Procs :
        SaveReturned(p) =>
            agg[AggOf[p]].pending = IF svc[p].result = Nil THEN <<>> ELSE svc[p].raised

(***************************************************************************)
(* C29.  No update is lost.  A Save that stores events succeeds only if no *)
(* other writer appended to the stream between the saver's Load and its    *)
(* Append: the events below the saved batch are exactly the events the     *)
(* saver had loaded.  Every batch stored through the repository begins at  *)
(* the version its writer had loaded, plus one.                            *)
(***************************************************************************)
C29_NoLostUpdate ==
    /\ \A p \in Procs :
          (SaveReturned(p) /\ svc[p].result = Nil /\ svc[p].raised # <<>>) =>
              LET all == AppendedEvents("s1")
                  v == svc[p].loaded
                  k == Len(svc[p].raised)
              IN  /\ Len(svc[p].seen) = v
                  /\ Len(all) >= v + k
                  /\ SubSeq(all, 1, v) = svc[p].seen
                  /\ SubSeq(all, v + 1, v + k) = svc[p].raised
                  /\ \A i \in 1..k : HoldsAt("s1", v + i, svc[p].raised[i])
    /\ \A j \in (base["s1"] + 1)..Len(appended["s1"]) :
          \E p \in Procs :
              /\ svc[p].op = "Save"
              /\ appended["s1"][j].events = svc[p].flushed
              /\ appended["s1"][j].expected = svc[p].loaded

\* Both goroutines loaded the opened account at version 1 and raised a
\* deposit; p1's Save stored it at version 2 and p2's Save got the conflict.
C29_Witness ==
    /\ SaveReturned("p1") /\ svc["p1"].result = Nil
    /\ svc["p1"].loaded = 1 /\ Len(svc["p1"].raised) = 1
    /\ SaveReturned("p2") /\ svc["p2"].result.kind = "VersionConflictError"
    /\ svc["p2"].loaded = 1 /\ Len(svc["p2"].raised) = 1
    /\ CurrentVersion("s1") = 2

(***************************************************************************)
(* C30.  The mem and the pgx backend are observationally equivalent: after *)
(* the same sequential history of calls, a Load returns on either backend  *)
(* the same events and the same last version, for every fromVersion, also  *)
(* one at or above the stream's current version.  So every Load returns    *)
(* what the mem backend returns for the events appended so far.            *)
(***************************************************************************)
C30_LoadSameOnBothBackends ==
    \A p \in Procs :
        (Returned(p, "Load") /\ ret[p].kind = "loaded") =>
            LET all == AppendedEvents(call[p].streamID)
            IN  ret[p] = MemLoadResult(AppendEach(<<>>, 0, all, NilMd), call[p].fromVersion)

(***************************************************************************)
(* C22.  A version conflict is recovered by loading again and retrying.    *)
(* With finitely many writers, each repeating Load, Handle, Save until its *)
(* Save succeeds and loading anew after every VersionConflictError, and    *)
(* every writer scheduled fairly, every writer eventually completes a      *)
(* successful Save.  Each conflict a writer gets coincides with a batch    *)
(* another writer appended at the version the conflicting writer had       *)
(* loaded.                                                                 *)
(***************************************************************************)
\* Writer p's Save returned a VersionConflictError.
Conflicted(p) == SaveReturned(p) /\ svc[p].result.kind = "VersionConflictError"

\* Writer p's Save stored its deposit.
Deposited(p) == SaveReturned(p) /\ svc[p].result = Nil /\ svc[p].appends = 1

C22_ConflictMeansProgress ==
    \A p \in Procs :
        Conflicted(p) =>
            /\ Len(appended["s1"]) > svc[p].loaded
            /\ \E q \in Procs \ {p} :
                  appended["s1"][svc[p].loaded + 1]
                      = [expected |-> svc[p].loaded,
                         events |-> <<MoneyDeposited(Amounts[q])>>, md |-> NilMd]

C22_RetryTerminates ==
    /\ []C22_ConflictMeansProgress
    /\ \A p \in Procs : <>[]Deposited(p)

\* p2 got a conflict, started over and stored its deposit on top of p1's.
C22_Witness ==
    /\ Deposited("p1") /\ svc["p1"].tries = 0 /\ svc["p1"].loaded = 1
    /\ Deposited("p2") /\ svc["p2"].tries = 1 /\ svc["p2"].loaded = 2
    /\ AppendedEvents("s1")
          = <<AccountOpened("1", "Taro", 10), MoneyDeposited(5), MoneyDeposited(7)>>
====
